---- MODULE Spec2Model ----
(***************************************************************************)
(* Verification model of the E2EE-Secure-Chat relay (signaling server)     *)
(* and of the client's chat context (file transfer engine, message send).  *)
(*                                                                         *)
(* Relay: src/unnamed/part_000 (the signaling server).                     *)
(* Client: src/e2ee-secure-chat/contexts/ChatContext.tsx (ChatProvider)    *)
(*         src/e2ee-secure-chat/utils/FileTransferManager.ts               *)
(***************************************************************************)
EXTENDS Integers, Sequences, FiniteSets, TLC

(***************************************************************************)
(* Bounds of the model.                                                    *)
(***************************************************************************)
MaxSockets == 2        \* connections ever opened on the relay (registry model)
MaxTime == 10000       \* relay clock horizon (ms) of the registry model
MaxTimers == 2         \* pending room-deletion timers
MaxRateSockets == 1    \* connections ever opened on the relay (rate-limit model)
MaxRateTime == 2004    \* relay clock horizon (ms) of the rate-limit model
MaxCount == 12         \* events counted per connection and window
MaxUploads == 1        \* transfers the client initiates
MaxLoops == 2          \* sendChunks calls suspended at the same time
MaxCalls == 1          \* sendMessage calls that may be in flight when one more starts
MaxSendTasks == 2      \* sendMessage work awaiting crypto.subtle at the same time
MaxKeyTasks == 1       \* 'user-joined' key derivations awaiting crypto.subtle
MaxCompletions == 2    \* 'file-complete' events received for one transferId
MaxDeliverSockets == 3 \* connections opened on the relay (message relay model)
MaxMigrateTasks == 1   \* handlers and calls awaiting crypto.subtle while a peer reconnects
MaxRecvTasks == 1      \* 'encrypted-message' handlers awaiting crypto.subtle
MaxUnread == 1         \* unread messages counted for one chat target
MaxTabs == 2           \* browser tabs of the origin
MaxKeyPairs == 2       \* identity key pairs generated
MaxLinkChunks == 11    \* chunks of the file sent through the relay
MaxBroadcast == 2      \* transfers the client initiates (room broadcast model)
MaxFileSockets == 3    \* connections opened on the relay (file relay model)
MaxAdmitSockets == 4   \* connections opened on the relay (admission model)

(***************************************************************************)
(* Program constants of the relay.                                         *)
(***************************************************************************)
RATE_LIMIT_WINDOW == 1000
MAX_REQUESTS_PER_WINDOW == 10
MAX_GLOBAL_CONNECTIONS == 100
MAX_CONNECTIONS_PER_IP == 5
GRACE_PERIOD == 10000
CHUNK_SIZE == 65536
MAX_CHUNK_BYTES == 66000
YIELD_EVERY == 20
MIN_SUPPORTED_VERSION == <<1, 0, 0>>
LATEST_VERSION == <<1, 0, 1>>

(***************************************************************************)
(* Input sets.  Usernames and room ids are strings, modelled as sequences  *)
(* of characters so that the validators compute on length and alphabet.    *)
(***************************************************************************)
Ann == <<"a", "n", "n">>
Bob == <<"b", "o", "b">>
UsernameInputs == {Ann, <<"a", "!", "c">>}
MemberNames == {Ann, Bob}
RoomIdInputs == {<<"r">>, <<>>}
RoomPair == {<<"r">>, <<"q">>}
Ips == {"ipA", "ipB"}
PublicKeyInputs == {"pkA"}
NoVersion == <<>>
VersionInputs == {<<1, 0, 1>>}
\* admission model: declared versions ("0.9.9", "1.0.0", "1.0.1" or none), and
\* the addresses of a relay one connection short of its global cap
AdmitVersions == {NoVersion, <<0, 9, 9>>, <<1, 0, 0>>, <<1, 0, 1>>}
AddressNames == <<"a01", "a02", "a03", "a04", "a05", "a06", "a07", "a08", "a09", "a10",
                  "a11", "a12", "a13", "a14", "a15", "a16", "a17", "a18", "a19", "a20">>
AdmitIps == {"ipA", "a20"}
GraceTickSteps == {5000}
RateTickSteps == {500, 501}
EvictionOrders == {"inline", "deferred"}

\* client inputs: peers as the relay announces them, files, texts
MalformedKey == "bad"
Peer(socketId, username, publicKey) ==
    [socketId |-> socketId, username |-> username, publicKey |-> publicKey,
     isOnline |-> TRUE]
MessagePeers == {Peer("p1", "U1", "pk1"), Peer("p2", "U1", "pk2"),
                 Peer("p3", "U2", MalformedKey)}
\* one user seen under three connections, the last with another key pair
MigratePeers == {Peer("p1", "U1", "pk1"), Peer("p2", "U1", "pk1"),
                 Peer("p3", "U1", "pk2")}
RoomUserLists == {<<>>} \cup {<<user>> : user \in MigratePeers}
TransferPeers == {Peer("p1", "U1", "pk1")}
PeerSocketIds == {"p1", "p2", "p3"}
TextInputs == {"hi"}
OrderTexts == <<"first", "second">>
FileA == [name |-> "a.txt", size |-> 2 * CHUNK_SIZE + 1, type |-> "text/plain"]
FileInputs == {FileA}
IdentityNames == {"NeonWolf#001"}
DownloadIds == {101}
\* file relay model: the chunks the client slices FileA into, binary data at
\* and one byte over the relay's ceiling, a string longer than the ceiling
\* and a chunk without data
RelayTransferIds == {"t1", "t2"}
RelayMetadata == {[transferId |-> "t1", fileName |-> "a.txt", totalChunks |-> 3],
                  [transferId |-> "t2", fileName |-> "b.png", totalChunks |-> 1]}
FileSignals == {"file-accept", "file-decline", "file-complete", "file-cancel"}
UploadIds == 1..MaxUploads

VARIABLES
    now,                \* Date.now() on the relay
    nextSocketId,       \* connections opened so far + 1 (socket ids are fresh)
    sockets,            \* io.sockets.sockets: connected sockets with handlers
    closing,            \* sockets closed whose 'disconnect' handler is pending
    clientIp,           \* socket.handshake.address of every admitted socket
    adapterRooms,       \* socket.io room membership (socket.join / leaveAll)
    rooms,              \* rooms: roomId -> (socketId -> user)
    socketToRoom,       \* socketToRoom: socketId -> roomId
    allUsers,           \* allUsers: ordered map username -> user
    socketRateLimits,   \* socketRateLimits: socketId -> {count, lastReset}
    ipConnectionCounts, \* ipConnectionCounts: ip -> count
    timers,             \* pending setTimeout callbacks, in scheduling order
    emptiedAt,          \* history: existing room -> time its member set last became empty
    inRoom,             \* history: connected socket -> room it joined last and has not left
    sent,               \* history: the 'send-message' event handled in the last step
    out,                \* events the relay emitted in the last step
    handled,            \* rate model: events of the window that reached a handler
    windowStart,        \* rate model: time of the event that opened the window
    received,           \* rate model: events received in the window
    activeUsers,        \* client: activeUsers (array of user profiles)
    sharedSecretsRef,   \* client: sharedSecretsRef: socketId -> session key
    activeChatTarget,   \* client: activeChatTarget ('ROOM' or a socket id)
    keyTasks,           \* client: key derivations awaiting crypto.subtle
    sendTasks,          \* client: sendMessage calls awaiting crypto.subtle
    activeTransfers,    \* client: activeTransfers (React state)
    activeTransfersRef, \* client: activeTransfersRef.current
    transfersSynced,    \* client: activeTransfersRef.current is the state object
    fileChunksRef,      \* client: fileChunksRef: transferId -> Map(chunkId -> data)
    processedTransferIds, \* client: processedTransferIds
    pendingFileChunks,  \* client: window.pendingFileChunks: transferId -> chunks
    isSendingRef,       \* client: isSendingRef.current
    nextTransferId,     \* client: transfer ids generated so far + 1 (ids are fresh)
    sendLoops,          \* client: sendChunks calls suspended at their yield
    clientTimers,       \* client: pending setTimeout callbacks
    downloads,          \* client: files handed to the browser (a.click())
    completions,        \* history: 'file-complete' events received, per transferId
    ended,              \* history: how a transfer was declined or cancelled, per transferId
    dataSent,           \* history: how often each chunk and each 'file-complete' was emitted (1, or 2 for more)
    session,            \* the client's connection to the relay: room, socket and the events on their way
    link,               \* two clients and the relay between them: both clients' state and the events in flight
    lastMessage,        \* the envelope whose handling ended in the last step, and the messages it added
    emitted,            \* client: events the client emitted in the last step
    shown,              \* client: system messages added in the last step
    unreadCounts,       \* client: unreadCounts: chat target -> unread messages
    recvTasks,          \* client: 'encrypted-message' handlers awaiting crypto.subtle
    online,             \* history: username -> socket id the client learned last
    migration,          \* history: the socket id changes handled in the last step
    migratedKey,        \* history: new socket id -> key cached under the old id
    tabs,               \* browser: tab -> sessionStorage and the ChatProvider mounted in it
    keyStore,           \* browser: IndexedDB store 'keys' of the origin (shared by the tabs)
    nextKeyId,          \* browser: key pairs generated so far + 1 (generated keys are fresh)
    lastRun,            \* history: the initIdentityAndKeys run that finished last
    destroyed           \* history: keys held by a tab closed as the last open tab

relayVars == <<now, nextSocketId, sockets, closing, clientIp, adapterRooms, rooms,
               socketToRoom, allUsers, socketRateLimits, ipConnectionCounts,
               timers, emptiedAt, inRoom, sent, out>>
rateVars == <<handled, windowStart, received>>
chatVars == <<activeUsers, sharedSecretsRef, activeChatTarget, keyTasks, sendTasks,
                activeTransfers, activeTransfersRef, transfersSynced, fileChunksRef,
                processedTransferIds, pendingFileChunks, isSendingRef, nextTransferId,
                sendLoops, clientTimers, downloads, completions, emitted, shown,
                unreadCounts, recvTasks, online, migration, migratedKey, ended,
                dataSent, lastMessage>>
identityVars == <<tabs, keyStore, nextKeyId, lastRun, destroyed>>
clientVars == <<chatVars, identityVars, link, session>>

(***************************************************************************)
(* Map helpers (JavaScript Map: get / set / delete).                       *)
(***************************************************************************)
Put(f, k, v) == [x \in (DOMAIN f) \cup {k} |-> IF x = k THEN v ELSE f[x]]
Del(f, k) == [x \in (DOMAIN f) \ {k} |-> f[x]]
EmptyMap == [x \in {} |-> 0]
Min(a, b) == IF a < b THEN a ELSE b

\* allUsers is a Map iterated in insertion order by the disconnect handler:
\* it is a sequence of user records with pairwise distinct usernames.
UsersHas(m, username) == \E i \in 1..Len(m) : m[i].username = username
UsersGet(m, username) == m[CHOOSE i \in 1..Len(m) : m[i].username = username]
UsersSet(m, user) ==
    IF UsersHas(m, user.username)
    THEN [i \in 1..Len(m) |-> IF m[i].username = user.username THEN user ELSE m[i]]
    ELSE Append(m, user)
UsersDeleteAt(m, k) == [i \in 1..(Len(m) - 1) |-> IF i < k THEN m[i] ELSE m[i + 1]]

(***************************************************************************)
(* Input validation helpers.                                               *)
(***************************************************************************)
Letters == {"a", "b", "c", "d", "e", "f", "g", "h", "i", "j", "k", "l", "m",
            "n", "o", "p", "q", "r", "s", "t", "u", "v", "w", "x", "y", "z",
            "A", "B", "C", "D", "E", "F", "G", "H", "I", "J", "K", "L", "M",
            "N", "O", "P", "Q", "R", "S", "T", "U", "V", "W", "X", "Y", "Z"}
Digits == {"0", "1", "2", "3", "4", "5", "6", "7", "8", "9"}
UsernameAlphabet == Letters \cup Digits \cup {"_", "#", "-", " "}

isValidUsername(username) ==
    /\ Len(username) >= 3
    /\ Len(username) <= 20
    /\ \A i \in 1..Len(username) : username[i] \in UsernameAlphabet

isValidRoomId(roomId) ==
    /\ Len(roomId) >= 1
    /\ Len(roomId) <= 50

\* compareVersions: 1 if v1 > v2, -1 if v1 < v2, 0 if equal or one is absent
RECURSIVE compareFrom(_, _, _)
compareFrom(v1, v2, i) ==
    IF i > 3 THEN 0
    ELSE LET n1 == IF i <= Len(v1) THEN v1[i] ELSE 0
             n2 == IF i <= Len(v2) THEN v2[i] ELSE 0
         IN  IF n1 > n2 THEN 1
             ELSE IF n1 < n2 THEN -1
             ELSE compareFrom(v1, v2, i + 1)

\* variant: only the major numbers are compared
compareVersions_major(v1, v2) ==
    IF v1 = NoVersion \/ v2 = NoVersion THEN 0
    ELSE IF v1[1] > v2[1] THEN 1 ELSE IF v1[1] < v2[1] THEN -1 ELSE 0

compareVersions(v1, v2) ==
    IF v1 = NoVersion \/ v2 = NoVersion THEN 0 ELSE compareFrom(v1, v2, 1)

(***************************************************************************)
(* The relay state as one record, so that a handler that runs another      *)
(* handler inside itself (a forced disconnect) composes.                   *)
(***************************************************************************)
Relay == [sockets |-> sockets, closing |-> closing, adapterRooms |-> adapterRooms,
          rooms |-> rooms, socketToRoom |-> socketToRoom, allUsers |-> allUsers,
          socketRateLimits |-> socketRateLimits,
          ipConnectionCounts |-> ipConnectionCounts, timers |-> timers,
          emptiedAt |-> emptiedAt, inRoom |-> inRoom, sent |-> <<>>, out |-> {}]

Commit(R) ==
    /\ Len(R.timers) <= MaxTimers
    /\ sockets' = R.sockets
    /\ closing' = R.closing
    /\ adapterRooms' = R.adapterRooms
    /\ rooms' = R.rooms
    /\ socketToRoom' = R.socketToRoom
    /\ allUsers' = R.allUsers
    /\ socketRateLimits' = R.socketRateLimits
    /\ ipConnectionCounts' = R.ipConnectionCounts
    /\ timers' = R.timers
    /\ emptiedAt' = R.emptiedAt
    /\ inRoom' = R.inRoom
    /\ sent' = R.sent
    /\ out' = R.out

Emit(R, to, ev, data) == [R EXCEPT !.out = @ \cup {[to |-> to, ev |-> ev, data |-> data]}]

\* socket.to(roomId).emit(ev, data): every socket of the socket.io room but s
Broadcast(R, s, roomId, ev, data) ==
    [R EXCEPT !.out = @ \cup {[to |-> m, ev |-> ev, data |-> data] :
                              m \in {x \in R.sockets \ {s} : roomId \in R.adapterRooms[x]}}]

ErrorMsg(text) == [msg |-> text]

\* variant: the departure is not announced
leaveCurrentRoom_silent(R, s) ==
    IF s \notin DOMAIN R.socketToRoom THEN [R EXCEPT !.inRoom = Del(@, s)]
    ELSE LET roomId == R.socketToRoom[s]
             R1 == IF roomId \notin DOMAIN R.rooms THEN R
                   ELSE LET roomUsers == Del(R.rooms[roomId], s)
                            Ra == [R EXCEPT !.rooms[roomId] = roomUsers]
                        IN  IF DOMAIN roomUsers = {}
                            THEN [Ra EXCEPT !.timers =
                                     Append(@, [roomId |-> roomId, due |-> now + GRACE_PERIOD]),
                                            !.emptiedAt = Put(@, roomId, now)]
                            ELSE Ra
         IN  [R1 EXCEPT !.socketToRoom = Del(@, s), !.inRoom = Del(@, s)]

\* the room branch shared by 'leave-room' and 'disconnect'
leaveCurrentRoom(R, s) ==
    IF s \notin DOMAIN R.socketToRoom THEN [R EXCEPT !.inRoom = Del(@, s)]
    ELSE LET roomId == R.socketToRoom[s]
             R1 == IF roomId \notin DOMAIN R.rooms THEN R
                   ELSE LET roomUsers == Del(R.rooms[roomId], s)
                            Ra == [R EXCEPT !.rooms[roomId] = roomUsers]
                            Rb == Broadcast(Ra, s, roomId, "user-left", [socketId |-> s])
                        IN  IF DOMAIN roomUsers = {}
                            THEN [Rb EXCEPT !.timers =
                                     Append(@, [roomId |-> roomId, due |-> now + GRACE_PERIOD]),
                                            !.emptiedAt = Put(@, roomId, now)]
                            ELSE Rb
         IN  [R1 EXCEPT !.socketToRoom = Del(@, s), !.inRoom = Del(@, s)]

\* variant: the global cleanup matches the directory entry by address
disconnectHandler_byIp(R, s) ==
    LET ip == clientIp[s]
        R1 == [R EXCEPT !.socketRateLimits = Del(@, s)]
        R2 == leaveCurrentRoom(R1, s)
        held == {i \in 1..Len(R2.allUsers) : R2.allUsers[i].ip = ip}
        R3 == IF held = {} THEN R2
              ELSE [R2 EXCEPT !.allUsers =
                       UsersDeleteAt(@, CHOOSE i \in held : \A j \in held : i <= j)]
        currentCount == IF ip \in DOMAIN R3.ipConnectionCounts
                        THEN R3.ipConnectionCounts[ip] ELSE 0
        R4 == IF currentCount > 0
              THEN [R3 EXCEPT !.ipConnectionCounts = Put(@, ip, currentCount - 1)]
              ELSE R3
    IN  IF ip \in DOMAIN R4.ipConnectionCounts /\ R4.ipConnectionCounts[ip] = 0
        THEN [R4 EXCEPT !.ipConnectionCounts = Del(@, ip)]
        ELSE R4

\* socket.on('disconnect') of socket s, whose address is ip
disconnectHandler(R, s) ==
    LET ip == clientIp[s]
        R1 == [R EXCEPT !.socketRateLimits = Del(@, s)]
        R2 == leaveCurrentRoom(R1, s)
        held == {i \in 1..Len(R2.allUsers) : R2.allUsers[i].socketId = s}
        R3 == IF held = {} THEN R2
              ELSE [R2 EXCEPT !.allUsers =
                       UsersDeleteAt(@, CHOOSE i \in held : \A j \in held : i <= j)]
        currentCount == IF ip \in DOMAIN R3.ipConnectionCounts
                        THEN R3.ipConnectionCounts[ip] ELSE 0
        R4 == IF currentCount > 0
              THEN [R3 EXCEPT !.ipConnectionCounts = Put(@, ip, currentCount - 1)]
              ELSE R3
    IN  IF ip \in DOMAIN R4.ipConnectionCounts /\ R4.ipConnectionCounts[ip] = 0
        THEN [R4 EXCEPT !.ipConnectionCounts = Del(@, ip)]
        ELSE R4

\* socket.disconnect() issued by the relay on socket s: the socket leaves
\* io.sockets.sockets and its socket.io rooms; its 'disconnect' handler runs
\* inside the call or later, depending on the transport.
forceDisconnect(R, s, order) ==
    IF s \notin R.sockets THEN R
    ELSE LET R1 == [R EXCEPT !.sockets = @ \ {s}, !.adapterRooms[s] = {},
                             !.inRoom = Del(@, s)]
         IN  IF order = "inline" THEN disconnectHandler(R1, s)
             ELSE [R1 EXCEPT !.closing = @ \cup {s}]

\* the reclaim branch of 'register-user' and 'join-room'
reclaim(R, existingUser, order) ==
    IF existingUser.socketId \in R.sockets
    THEN forceDisconnect(
             Emit(R, existingUser.socketId, "error",
                  ErrorMsg("New connection detected. Disconnecting old session.")),
             existingUser.socketId, order)
    ELSE R

(***************************************************************************)
(* io.on('connection')                                                     *)
(***************************************************************************)
\* "2. Soft Update Check": sent before the admission checks
softUpdate(s, version) ==
    IF compareVersions(version, LATEST_VERSION) < 0
    THEN {[to |-> s, ev |-> "soft-update", data |-> [latestVersion |-> LATEST_VERSION]]}
    ELSE {}

\* variant: the per-address cap compared with > instead of >=
Connect_lenient(ip, version) ==
    /\ nextSocketId' = nextSocketId + 1
    /\ LET s == nextSocketId
           currentConnections == IF ip \in DOMAIN ipConnectionCounts
                                 THEN ipConnectionCounts[ip] ELSE 0
       IN  IF compareVersions(version, MIN_SUPPORTED_VERSION) < 0
           THEN /\ out' = {[to |-> s, ev |-> "force-update",
                            data |-> [minVersion |-> MIN_SUPPORTED_VERSION]]}
                /\ UNCHANGED <<sockets, closing, clientIp, adapterRooms, rooms,
                               socketToRoom, allUsers, socketRateLimits,
                               ipConnectionCounts, timers, emptiedAt, inRoom>>
           ELSE IF Cardinality(sockets) + Cardinality(closing) + 1 > MAX_GLOBAL_CONNECTIONS
           THEN /\ out' = softUpdate(s, version) \cup
                            {[to |-> s, ev |-> "error",
                              data |-> ErrorMsg("Server is full. Please try again later.")]}
                /\ UNCHANGED <<sockets, closing, clientIp, adapterRooms, rooms,
                               socketToRoom, allUsers, socketRateLimits,
                               ipConnectionCounts, timers, emptiedAt, inRoom>>
           ELSE IF currentConnections > MAX_CONNECTIONS_PER_IP
           THEN /\ out' = softUpdate(s, version) \cup
                            {[to |-> s, ev |-> "error",
                              data |-> ErrorMsg("Too many connections from your IP.")]}
                /\ UNCHANGED <<sockets, closing, clientIp, adapterRooms, rooms,
                               socketToRoom, allUsers, socketRateLimits,
                               ipConnectionCounts, timers, emptiedAt, inRoom>>
           ELSE /\ ipConnectionCounts' = Put(ipConnectionCounts, ip, currentConnections + 1)
                /\ sockets' = sockets \cup {s}
                /\ clientIp' = Put(clientIp, s, ip)
                /\ adapterRooms' = Put(adapterRooms, s, {})
                /\ out' = softUpdate(s, version)
                /\ UNCHANGED <<closing, rooms, socketToRoom, allUsers,
                               socketRateLimits, timers, emptiedAt, inRoom>>
    /\ sent' = <<>>
    /\ UNCHANGED <<now, rateVars, clientVars>>

Connect(ip, version) ==
    /\ nextSocketId' = nextSocketId + 1
    /\ LET s == nextSocketId
           currentConnections == IF ip \in DOMAIN ipConnectionCounts
                                 THEN ipConnectionCounts[ip] ELSE 0
       IN  IF compareVersions(version, MIN_SUPPORTED_VERSION) < 0
           THEN /\ out' = {[to |-> s, ev |-> "force-update",
                            data |-> [minVersion |-> MIN_SUPPORTED_VERSION]]}
                /\ UNCHANGED <<sockets, closing, clientIp, adapterRooms, rooms,
                               socketToRoom, allUsers, socketRateLimits,
                               ipConnectionCounts, timers, emptiedAt, inRoom>>
           ELSE IF Cardinality(sockets) + Cardinality(closing) + 1 > MAX_GLOBAL_CONNECTIONS
           THEN /\ out' = softUpdate(s, version) \cup
                            {[to |-> s, ev |-> "error",
                              data |-> ErrorMsg("Server is full. Please try again later.")]}
                /\ UNCHANGED <<sockets, closing, clientIp, adapterRooms, rooms,
                               socketToRoom, allUsers, socketRateLimits,
                               ipConnectionCounts, timers, emptiedAt, inRoom>>
           ELSE IF currentConnections >= MAX_CONNECTIONS_PER_IP
           THEN /\ out' = softUpdate(s, version) \cup
                            {[to |-> s, ev |-> "error",
                              data |-> ErrorMsg("Too many connections from your IP.")]}
                /\ UNCHANGED <<sockets, closing, clientIp, adapterRooms, rooms,
                               socketToRoom, allUsers, socketRateLimits,
                               ipConnectionCounts, timers, emptiedAt, inRoom>>
           ELSE /\ ipConnectionCounts' = Put(ipConnectionCounts, ip, currentConnections + 1)
                /\ sockets' = sockets \cup {s}
                /\ clientIp' = Put(clientIp, s, ip)
                /\ adapterRooms' = Put(adapterRooms, s, {})
                /\ out' = softUpdate(s, version)
                /\ UNCHANGED <<closing, rooms, socketToRoom, allUsers,
                               socketRateLimits, timers, emptiedAt, inRoom>>
    /\ sent' = <<>>
    /\ UNCHANGED <<now, rateVars, clientVars>>

(***************************************************************************)
(* socket.on('register-user')                                              *)
(***************************************************************************)
\* variant: the reclaim does not compare the origin addresses
RegisterUser_anyOrigin(s, username, publicKey, order) ==
    /\ s \in sockets
    /\ LET user == [socketId |-> s, username |-> username,
                    publicKey |-> publicKey, ip |-> clientIp[s]]
           taken == UsersHas(allUsers, username)
                    /\ UsersGet(allUsers, username).socketId # s
           existingUser == UsersGet(allUsers, username)
       IN  IF ~isValidUsername(username)
           THEN Commit(Emit(Relay, s, "error", ErrorMsg("Invalid username format.")))
           ELSE LET R1 == IF taken THEN reclaim(Relay, existingUser, order) ELSE Relay
                IN  Commit([R1 EXCEPT !.allUsers = UsersSet(@, user)])
    /\ UNCHANGED <<now, nextSocketId, clientIp, rateVars, clientVars>>

registerUserHandler(R, s, username, publicKey, order) ==
    LET user == [socketId |-> s, username |-> username,
                 publicKey |-> publicKey, ip |-> clientIp[s]]
        taken == UsersHas(R.allUsers, username)
                 /\ UsersGet(R.allUsers, username).socketId # s
        existingUser == UsersGet(R.allUsers, username)
    IN  IF ~isValidUsername(username)
        THEN Emit(R, s, "error", ErrorMsg("Invalid username format."))
        ELSE IF taken /\ existingUser.ip # clientIp[s]
        THEN forceDisconnect(
                 Emit(R, s, "error", ErrorMsg("Username already taken.")),
                 s, order)
        ELSE LET R1 == IF taken THEN reclaim(R, existingUser, order) ELSE R
             IN  [R1 EXCEPT !.allUsers = UsersSet(@, user)]

RegisterUser(s, username, publicKey, order) ==
    /\ s \in sockets
    /\ Commit(registerUserHandler(Relay, s, username, publicKey, order))
    /\ UNCHANGED <<now, nextSocketId, clientIp, rateVars, clientVars>>

(***************************************************************************)
(* socket.on('join-room')                                                  *)
(***************************************************************************)
\* join-room after the uniqueness check: socket.join, the room's member map,
\* socketToRoom and allUsers
enterRoom(R, s, roomId, user) ==
    [R EXCEPT !.adapterRooms[s] = @ \cup {roomId},
              !.socketToRoom = Put(@, s, roomId),
              !.rooms = Put(@, roomId,
                            Put(IF roomId \in DOMAIN @ THEN @[roomId] ELSE EmptyMap,
                                s, user)),
              !.allUsers = UsersSet(@, user),
              !.inRoom = Put(@, s, roomId)]

\* join-room: 'user-joined' to the others, 'room-users' to the joiner
announceJoin(R, s, roomId, user) ==
    Emit(Broadcast(R, s, roomId, "user-joined", [user |-> user]),
         s, "room-users",
         [users |-> {R.rooms[roomId][m] : m \in (DOMAIN R.rooms[roomId]) \ {s}}])

joinRoomHandler(R, s, roomId, username, publicKey, order) ==
    LET user == [socketId |-> s, username |-> username,
                 publicKey |-> publicKey, ip |-> clientIp[s]]
        taken == UsersHas(R.allUsers, username)
                 /\ UsersGet(R.allUsers, username).socketId # s
        existingUser == UsersGet(R.allUsers, username)
    IN  IF ~isValidRoomId(roomId) \/ ~isValidUsername(username)
        THEN R
        ELSE IF taken /\ existingUser.ip # clientIp[s]
        THEN forceDisconnect(
                 Emit(R, s, "error", ErrorMsg("Username taken.")), s, order)
        ELSE announceJoin(
                 enterRoom(IF taken THEN reclaim(R, existingUser, order) ELSE R,
                           s, roomId, user),
                 s, roomId, user)

JoinRoom(s, roomId, username, publicKey, order) ==
    /\ s \in sockets
    /\ Commit(joinRoomHandler(Relay, s, roomId, username, publicKey, order))
    /\ UNCHANGED <<now, nextSocketId, clientIp, rateVars, clientVars>>

(***************************************************************************)
(* socket.on('leave-room')                                                 *)
(***************************************************************************)
LeaveRoom(s) ==
    /\ s \in sockets
    /\ Commit(leaveCurrentRoom(Relay, s))
    /\ UNCHANGED <<now, nextSocketId, clientIp, rateVars, clientVars>>

(***************************************************************************)
(* socket.on('send-message').  A target the sender leaves out (undefined   *)
(* or '') is the empty sequence; a supplied connection id is <<id>>.       *)
(***************************************************************************)
NoName == <<>>
NoSocketId == <<>>

\* io.to(id).emit(ev, data): the room named by a socket id holds that socket
ioTo(R, id, ev, data) == IF id \in R.sockets THEN Emit(R, id, ev, data) ELSE R

\* variant: a supplied connection id is used as it is
sendMessageHandler_supplied(R, s, targetSocketId, targetUsername, payload, senderUsername) ==
    LET finalTargetId ==
            IF targetSocketId = NoSocketId /\ targetUsername # NoName
                   /\ UsersHas(R.allUsers, targetUsername)
            THEN <<UsersGet(R.allUsers, targetUsername).socketId>>
            ELSE targetSocketId
    IN  IF finalTargetId # NoSocketId
        THEN ioTo(R, finalTargetId[1], "encrypted-message",
                  [senderSocketId |-> s, senderUsername |-> senderUsername,
                   payload |-> payload])
        ELSE R

sendMessageHandler(R, s, targetSocketId, targetUsername, payload, senderUsername) ==
    LET finalTargetId ==
            IF targetUsername # NoName /\ UsersHas(R.allUsers, targetUsername)
            THEN <<UsersGet(R.allUsers, targetUsername).socketId>>
            ELSE targetSocketId
    IN  IF finalTargetId # NoSocketId
        THEN ioTo(R, finalTargetId[1], "encrypted-message",
                  [senderSocketId |-> s, senderUsername |-> senderUsername,
                   payload |-> payload])
        ELSE R

RelaySendMessage(s, targetSocketId, targetUsername, payload, senderUsername) ==
    /\ s \in sockets
    /\ Commit([sendMessageHandler(Relay, s, targetSocketId, targetUsername, payload,
                                  senderUsername)
                  EXCEPT !.sent = <<[from |-> s, targetSocketId |-> targetSocketId,
                                     targetUsername |-> targetUsername]>>])
    /\ UNCHANGED <<now, nextSocketId, clientIp, rateVars, clientVars>>

(***************************************************************************)
(* socket.on('disconnect'): the transport of a connected socket closes, or *)
(* the pending handler of a socket the relay closed runs.                  *)
(***************************************************************************)
Disconnect(s) ==
    /\ s \in sockets \cup closing
    /\ Commit(disconnectHandler(
           [Relay EXCEPT !.sockets = @ \ {s}, !.closing = @ \ {s},
                         !.adapterRooms[s] = {}], s))
    /\ UNCHANGED <<now, nextSocketId, clientIp, rateVars, clientVars>>

(***************************************************************************)
(* The setTimeout callback scheduled when a room became empty.             *)
(***************************************************************************)
\* variant: the callback does not look at the member set
RoomTimer_unconditional ==
    /\ timers # <<>>
    /\ timers[1].due <= now
    /\ LET roomId == timers[1].roomId
           R1 == [Relay EXCEPT !.timers = Tail(@)]
       IN  IF roomId \in DOMAIN rooms
           THEN Commit([R1 EXCEPT !.rooms = Del(@, roomId),
                                  !.emptiedAt = Del(@, roomId)])
           ELSE Commit(R1)
    /\ UNCHANGED <<now, nextSocketId, clientIp, rateVars, clientVars>>

RoomTimer ==
    /\ timers # <<>>
    /\ timers[1].due <= now
    /\ LET roomId == timers[1].roomId
           R1 == [Relay EXCEPT !.timers = Tail(@)]
       IN  IF roomId \in DOMAIN rooms /\ DOMAIN rooms[roomId] = {}
           THEN Commit([R1 EXCEPT !.rooms = Del(@, roomId),
                                  !.emptiedAt = Del(@, roomId)])
           ELSE Commit(R1)
    /\ UNCHANGED <<now, nextSocketId, clientIp, rateVars, clientVars>>

\* time passes; a due timer callback runs before the clock moves on
Tick(d) ==
    /\ now + d <= MaxTime
    /\ timers # <<>> => now + d <= timers[1].due
    /\ now' = now + d
    /\ out' = {}
    /\ UNCHANGED <<nextSocketId, sockets, closing, clientIp, adapterRooms, rooms,
                   socketToRoom, allUsers, socketRateLimits, ipConnectionCounts,
                   timers, emptiedAt, inRoom, sent, rateVars, clientVars>>

(***************************************************************************)
(* Rate limiting: checkRateLimit and the socket.use middleware, followed   *)
(* by the handler of the event ('get-stats', which answers its callback).  *)
(***************************************************************************)
\* variant: the cap compared with < instead of <=
checkRateLimit_strict(limits, socketId, t) ==
    LET l0 == IF socketId \in DOMAIN limits THEN limits[socketId]
              ELSE [count |-> 0, lastReset |-> t]
        l1 == IF t - l0.lastReset > RATE_LIMIT_WINDOW
              THEN [count |-> 0, lastReset |-> t]
              ELSE l0
        l2 == [l1 EXCEPT !.count = @ + 1]
    IN  [limits |-> Put(limits, socketId, l2),
         ok |-> l2.count < MAX_REQUESTS_PER_WINDOW]

checkRateLimit(limits, socketId, t) ==
    LET l0 == IF socketId \in DOMAIN limits THEN limits[socketId]
              ELSE [count |-> 0, lastReset |-> t]
        l1 == IF t - l0.lastReset > RATE_LIMIT_WINDOW
              THEN [count |-> 0, lastReset |-> t]
              ELSE l0
        l2 == [l1 EXCEPT !.count = @ + 1]
    IN  [limits |-> Put(limits, socketId, l2),
         ok |-> l2.count <= MAX_REQUESTS_PER_WINDOW]

\* the window an event falls in, told from the clock alone: an event opens a
\* window when none is open or the open one is older than RATE_LIMIT_WINDOW
OpensWindow(s) == s \notin DOMAIN windowStart \/ now - windowStart[s] > RATE_LIMIT_WINDOW

GetStats(s) ==
    /\ s \in sockets
    /\ s \in DOMAIN socketRateLimits => socketRateLimits[s].count < MaxCount
    /\ LET r == checkRateLimit(socketRateLimits, s, now)
           seen == IF OpensWindow(s) THEN 0 ELSE received[s]
           done == IF OpensWindow(s) THEN 0 ELSE handled[s]
       IN  /\ socketRateLimits' = r.limits
           /\ windowStart' = IF OpensWindow(s) THEN Put(windowStart, s, now) ELSE windowStart
           /\ received' = Put(received, s, seen + 1)
           /\ handled' = Put(handled, s, IF r.ok THEN done + 1 ELSE done)
           /\ out' = IF r.ok
                     THEN {[to |-> s, ev |-> "get-stats", data |-> [stats |-> "stats"]]}
                     ELSE {}
    /\ UNCHANGED <<now, nextSocketId, sockets, closing, clientIp, adapterRooms, rooms,
                   socketToRoom, allUsers, ipConnectionCounts, timers, emptiedAt,
                   inRoom, sent, clientVars>>

RateConnect(ip, version) ==
    /\ nextSocketId <= MaxRateSockets
    /\ Connect(ip, version)

RateDisconnect(s) ==
    /\ s \in sockets \cup closing
    /\ Commit(disconnectHandler(
           [Relay EXCEPT !.sockets = @ \ {s}, !.closing = @ \ {s},
                         !.adapterRooms[s] = {}], s))
    /\ windowStart' = Del(windowStart, s)
    /\ received' = Del(received, s)
    /\ handled' = Del(handled, s)
    /\ UNCHANGED <<now, nextSocketId, clientIp, clientVars>>

RateTick(d) ==
    /\ now + d <= MaxRateTime
    /\ now' = now + d
    /\ out' = {}
    /\ UNCHANGED <<nextSocketId, sockets, closing, clientIp, adapterRooms, rooms,
                   socketToRoom, allUsers, socketRateLimits, ipConnectionCounts,
                   timers, emptiedAt, inRoom, sent, rateVars, clientVars>>

(***************************************************************************)
(* The chat client (ChatProvider).  One client is modelled; the events it  *)
(* receives from the relay are inputs, the events it emits are `emitted'.  *)
(***************************************************************************)
ROOM == "ROOM"
OwnSocketId == "self"
OwnPublicKey == "pkSelf"
OwnUsername == "Me"

\* File.slice(start, end).arrayBuffer(): the plain bytes [start, end) of a file
Slice(file, start, end) ==
    [kind |-> "plain", file |-> file.name, from |-> start, to |-> Min(end, file.size)]
byteLength(data) == data.to - data.from

\* FileTransferManager.sliceFile
RECURSIVE sliceFrom(_, _)
sliceFrom(file, offset) ==
    IF offset < file.size
    THEN <<Slice(file, offset, offset + CHUNK_SIZE)>> \o sliceFrom(file, offset + CHUNK_SIZE)
    ELSE <<>>
sliceFile(file) == sliceFrom(file, 0)

\* Map<number, ArrayBuffer>: entries in insertion order
MapHas(m, k) == \E i \in 1..Len(m) : m[i].k = k
MapGet(m, k) == m[CHOOSE i \in 1..Len(m) : m[i].k = k].v
MapSet(m, k, v) ==
    IF MapHas(m, k)
    THEN [i \in 1..Len(m) |-> IF m[i].k = k THEN [k |-> k, v |-> v] ELSE m[i]]
    ELSE Append(m, [k |-> k, v |-> v])

\* variant: the parts taken in the order the chunks were stored
RECURSIVE reassembleFrom_arrival(_, _, _)
reassembleFrom_arrival(chunks, totalChunks, i) ==
    IF i < Len(chunks)
    THEN <<chunks[i + 1].v>> \o reassembleFrom_arrival(chunks, totalChunks, i + 1)
    ELSE <<>>
\* FileTransferManager.reassembleFile: the loop over i = 0 .. totalChunks - 1
RECURSIVE reassembleFrom(_, _, _)
reassembleFrom(chunks, totalChunks, i) ==
    IF i < totalChunks
    THEN (IF MapHas(chunks, i) THEN <<MapGet(chunks, i)>> ELSE <<>>)
         \o reassembleFrom(chunks, totalChunks, i + 1)
    ELSE <<>>
reassembleFile(chunks, totalChunks, type) ==
    [parts |-> reassembleFrom(chunks, totalChunks, 0), type |-> type]

RECURSIVE partsSize(_)
partsSize(parts) == IF parts = <<>> THEN 0 ELSE byteLength(Head(parts)) + partsSize(Tail(parts))
BlobSize(blob) == partsSize(blob.parts)

\* Math.round(num / den * 100) for num >= 0, den > 0
RoundPercent(num, den) == (200 * num + den) \div (2 * den)

\* a FileTransferState none of whose fields is defined ({...undefined, ...updates})
BlankTransfer ==
    [transferId |-> -1, fileName |-> "", fileSize |-> -1, fileType |-> "",
     chunksTotal |-> 0, chunksReceived |-> -1, progress |-> -1, status |-> "undefined",
     isUpload |-> FALSE, peerSocketId |-> "undefined", isDirect |-> FALSE]
Merge(r, updates) == [f \in DOMAIN r |-> IF f \in DOMAIN updates THEN updates[f] ELSE r[f]]

\* the client's state as one value, so that handlers compose
Client ==
    [activeUsers |-> activeUsers, sharedSecretsRef |-> sharedSecretsRef,
     activeChatTarget |-> activeChatTarget, keyTasks |-> keyTasks,
     sendTasks |-> sendTasks, activeTransfers |-> activeTransfers,
     activeTransfersRef |-> activeTransfersRef, transfersSynced |-> transfersSynced,
     fileChunksRef |-> fileChunksRef, processedTransferIds |-> processedTransferIds,
     pendingFileChunks |-> pendingFileChunks, isSendingRef |-> isSendingRef,
     nextTransferId |-> nextTransferId, sendLoops |-> sendLoops,
     clientTimers |-> clientTimers, downloads |-> downloads,
     completions |-> completions,
     unreadCounts |-> unreadCounts, recvTasks |-> recvTasks, online |-> online,
     migratedKey |-> migratedKey, ended |-> ended, dataSent |-> dataSent,
     emitted |-> <<>>, shown |-> <<>>, migration |-> {}, lastMessage |-> <<>>]

CommitClient(C) ==
    /\ activeUsers' = C.activeUsers
    /\ sharedSecretsRef' = C.sharedSecretsRef
    /\ activeChatTarget' = C.activeChatTarget
    /\ keyTasks' = C.keyTasks
    /\ sendTasks' = C.sendTasks
    /\ activeTransfers' = C.activeTransfers
    /\ activeTransfersRef' = C.activeTransfersRef
    /\ transfersSynced' = C.transfersSynced
    /\ fileChunksRef' = C.fileChunksRef
    /\ processedTransferIds' = C.processedTransferIds
    /\ pendingFileChunks' = C.pendingFileChunks
    /\ isSendingRef' = C.isSendingRef
    /\ nextTransferId' = C.nextTransferId
    /\ sendLoops' = C.sendLoops
    /\ clientTimers' = C.clientTimers
    /\ downloads' = C.downloads
    /\ completions' = C.completions
    /\ emitted' = C.emitted
    /\ shown' = C.shown
    /\ unreadCounts' = C.unreadCounts
    /\ recvTasks' = C.recvTasks
    /\ online' = C.online
    /\ migration' = C.migration
    /\ migratedKey' = C.migratedKey
    /\ ended' = C.ended
    /\ dataSent' = C.dataSent
    /\ lastMessage' = C.lastMessage
    /\ UNCHANGED <<relayVars, rateVars, identityVars, link, session>>

\* history: one more emission of a chunk or of a 'file-complete'
countSent(sentSoFar, ev, data) ==
    IF ev \notin {"file-chunk", "file-complete"} THEN sentSoFar
    ELSE LET key == <<ev, data.transferId,
                      IF ev = "file-chunk" THEN data.chunkId ELSE 0>>
         IN  Put(sentSoFar, key, IF key \in DOMAIN sentSoFar THEN 2 ELSE 1)

\* socketRef.current.emit(ev, data)
ClientEmit(C, ev, data) ==
    [C EXCEPT !.emitted = Append(@, [ev |-> ev, data |-> data]),
              !.dataSent = countSent(@, ev, data)]
\* addSystemMessage(text, type)
addSystemMessage(C, text, type) ==
    [C EXCEPT !.shown = Append(@, [text |-> text, type |-> type])]
\* setTimeout(callback, delay)
setTimeout(C, kind, transferId) ==
    [C EXCEPT !.clientTimers = @ \cup {[kind |-> kind, transferId |-> transferId]}]

\* setActiveTransfers(next): a new state object, the ref keeps the old one
\* until the effect that follows the render
setActiveTransfers(C, next) ==
    [C EXCEPT !.activeTransfers = next, !.transfersSynced = FALSE]
\* activeTransfersRef.current[id] = transfer: writes the object the ref points
\* to, which is the state object itself once the effect has run
setTransferInRef(C, id, transfer) ==
    [C EXCEPT !.activeTransfersRef = Put(@, id, transfer),
              !.activeTransfers = IF C.transfersSynced THEN Put(@, id, transfer) ELSE @]

updateTransferState(C, id, updates) ==
    LET prev == C.activeTransfers
        old == IF id \in DOMAIN prev THEN prev[id] ELSE BlankTransfer
    IN  setActiveTransfers(C, Put(prev, id, Merge(old, updates)))

removeTransfer(C, id) == setActiveTransfers(C, Del(C.activeTransfers, id))

\* the effect of lines "activeTransfersRef.current = activeTransfers"
SyncTransfersRef ==
    /\ ~transfersSynced
    /\ CommitClient([Client EXCEPT !.activeTransfersRef = activeTransfers,
                                   !.transfersSynced = TRUE])

(***************************************************************************)
(* Presence and session keys on the client.                                *)
(***************************************************************************)
\* deriveSharedSecret(own private key, peer public key): ECDH gives both ends
\* of a pair the same key, so the key is the unordered pair of public keys
deriveSharedSecret(ownPublicKey, peerPublicKey) == {ownPublicKey, peerPublicKey}

\* variant: the text is sent as it is
encryptText_plain(text, aesKey) == [kind |-> "plain", key |-> aesKey, text |-> text]
\* encryptText(text, aesKey): AES-GCM ciphertext of the text under the key
encryptText(text, aesKey) == [kind |-> "cipher", key |-> aesKey, text |-> text]

FindUser(users, socketId) == \E i \in 1..Len(users) : users[i].socketId = socketId
UserIndex(users, username) == CHOOSE i \in 1..Len(users) : users[i].username = username
HasUsername(users, username) == \E i \in 1..Len(users) : users[i].username = username

\* handleSetActiveChatTarget(target, username): the unread count of the
\* target is cleared
handleSetActiveChatTarget(C, target) ==
    [C EXCEPT !.activeChatTarget = target, !.unreadCounts = Del(@, target)]

\* the unreadCounts the socket handlers read: they are created once, by the
\* effect that opens the socket, and close over the state of that render,
\* in which no message has been received
unreadCountsSeen == EmptyMap
\* counts[k] || 0
Count(counts, k) == IF k \in DOMAIN counts THEN counts[k] ELSE 0
\* the updater given to setUnreadCounts when a socket id changed; without a
\* count under the old id the sum is NaN, which every reader takes for 0
\* ("prev[id] || 0", "unreadCounts[id] > 0")
moveUnread(prevCounts, from, to) ==
    IF from \in DOMAIN prevCounts
    THEN Del(Put(prevCounts, to, Count(prevCounts, to) + prevCounts[from]), from)
    ELSE Put(prevCounts, to, 0)

\* "Migrate Secret": the secret of the old socket id is set under the new one
migrateSecret(secrets, from, to) ==
    IF from \in DOMAIN secrets THEN Put(secrets, to, secrets[from]) ELSE secrets

\* history: the client is told that username is now online under socket id
\* `to', having known it under `from'
learned(C, username, from, to) ==
    [C EXCEPT !.migration = @ \cup {[username |-> username, from |-> from, to |-> to]},
              !.migratedKey = IF from \in DOMAIN C.sharedSecretsRef
                              THEN Put(@, to, C.sharedSecretsRef[from])
                              ELSE Del(@, to)]

\* a socket id change of a listed user: secret and unread count migrate
socketIdChanged(C, username, from, to) ==
    LET C1 == [learned(C, username, from, to) EXCEPT
                  !.sharedSecretsRef = migrateSecret(@, from, to)]
    IN  IF Count(unreadCountsSeen, from) # 0
        THEN [C1 EXCEPT !.unreadCounts = moveUnread(@, from, to)]
        ELSE C1

\* a derivation of the session key with `user' awaiting crypto.subtle; rest
\* are the users the loop of 'room-users' goes on with
KeyTask(user, rest) ==
    [socketId |-> user.socketId, publicKey |-> user.publicKey, rest |-> rest]

\* the 'user-joined' handler up to its first await
userJoined(C, user) ==
    LET onlineUser == [user EXCEPT !.isOnline = TRUE]
        prev == C.activeUsers
        derive(D) == [D EXCEPT !.keyTasks = @ \cup {KeyTask(user, <<>>)},
                               !.online = Put(@, user.username, user.socketId)]
        joined(D) == addSystemMessage(D, "joined the room.", "CONNECTION_STATUS")
    IN  IF HasUsername(prev, user.username)
        THEN LET existingIndex == UserIndex(prev, user.username)
                 existingUser == prev[existingIndex]
                 reconnect == existingUser.socketId # user.socketId
                 C1 == IF reconnect
                       THEN socketIdChanged(C, user.username, existingUser.socketId,
                                            user.socketId)
                       ELSE C
                 C2 == IF reconnect /\ C.activeChatTarget = existingUser.socketId
                       THEN addSystemMessage(
                                handleSetActiveChatTarget(C1, user.socketId),
                                "reconnected. Session updated.", "CONNECTION_STATUS")
                       ELSE C1
             IN  derive(joined([C2 EXCEPT !.activeUsers =
                                    [prev EXCEPT ![existingIndex] = onlineUser]]))
        ELSE derive(joined([C EXCEPT !.activeUsers = Append(prev, onlineUser)]))

OnUserJoined(user) ==
    /\ Cardinality(keyTasks) < MaxKeyTasks
    /\ CommitClient(userJoined(Client, user))

\* importPublicKeyJwk(jwk) succeeds on a well-formed key
importPublicKeyJwk(jwk) == jwk \notin {"", MalformedKey}

\* the loop "for (const user of users)" of 'room-users' up to its next
\* await: the first user without a secret is derived next
RECURSIVE deriveNext(_, _)
deriveNext(C, users) ==
    IF users = <<>> THEN C
    ELSE IF Head(users).socketId \in DOMAIN C.sharedSecretsRef
    THEN deriveNext(C, Tail(users))
    ELSE [C EXCEPT !.keyTasks = @ \cup {KeyTask(Head(users), Tail(users))}]

\* the key derivation that ends the 'user-joined' handler, or one round of
\* the loop that ends the 'room-users' handler
KeyDerived(task) ==
    /\ task \in keyTasks
    /\ CommitClient(deriveNext(
           [Client EXCEPT
               !.keyTasks = @ \ {task},
               !.sharedSecretsRef =
                   IF importPublicKeyJwk(task.publicKey)
                   THEN Put(@, task.socketId,
                            deriveSharedSecret(OwnPublicKey, task.publicKey))
                   ELSE @],
           task.rest))

\* mergedUsers.findIndex(u => u.username === username)
findIndex(users, username) ==
    CHOOSE i \in 1..Len(users) :
        /\ users[i].username = username
        /\ \A j \in 1..(i - 1) : users[j].username # username

\* existingPartners.forEach of 'room-users'; C.activeUsers is mergedUsers
RECURSIVE mergePartners(_, _)
mergePartners(C, partners) ==
    IF partners = <<>> THEN C
    ELSE LET partner == Head(partners)
             mergedUsers == C.activeUsers
         IN  IF HasUsername(mergedUsers, partner.username)
             THEN LET newUser == mergedUsers[findIndex(mergedUsers, partner.username)]
                  IN  mergePartners(
                          IF newUser.socketId # partner.socketId
                          THEN socketIdChanged(C, partner.username, partner.socketId,
                                               newUser.socketId)
                          ELSE C,
                          Tail(partners))
             ELSE mergePartners(
                      [C EXCEPT !.activeUsers =
                           Append(@, [partner EXCEPT !.isOnline = FALSE])],
                      Tail(partners))

\* history: the users of a 'room-users' list are online under the listed ids
RECURSIVE learnAll(_, _)
learnAll(known, users) ==
    IF users = <<>> THEN known
    ELSE learnAll(Put(known, Head(users).username, Head(users).socketId), Tail(users))

\* the 'room-users' handler up to its first await, with no pending target
\* (pendingTargetUserRef.current is null)
roomUsers(C, users) ==
    LET prev == C.activeUsers
        incomingUsers == [i \in 1..Len(users) |-> [users[i] EXCEPT !.isOnline = TRUE]]
        existingPartners ==
            SelectSeq(prev, LAMBDA u :
                \/ u.socketId \in DOMAIN C.sharedSecretsRef
                \/ C.activeChatTarget = u.socketId
                \/ Count(unreadCountsSeen, u.socketId) > 0)
        merged == mergePartners([C EXCEPT !.activeUsers = incomingUsers],
                                existingPartners)
    IN  deriveNext([merged EXCEPT !.online = learnAll(@, users)], users)

OnRoomUsers(users) ==
    /\ Cardinality(keyTasks) < MaxKeyTasks
    /\ CommitClient(roomUsers(Client, users))

OnUserLeft(socketId) ==
    LET prev == activeUsers
        C0 == [Client EXCEPT !.online =
                  [u \in {x \in DOMAIN online : online[x] # socketId} |-> online[u]]]
        C1 == IF FindUser(prev, socketId)
              THEN addSystemMessage(C0, "left the room.", "CONNECTION_STATUS")
              ELSE C0
    IN  IF socketId \in DOMAIN sharedSecretsRef
        THEN CommitClient([C1 EXCEPT !.activeUsers =
                 [i \in 1..Len(prev) |->
                     IF prev[i].socketId = socketId
                     THEN [prev[i] EXCEPT !.isOnline = FALSE] ELSE prev[i]]])
        ELSE CommitClient([C1 EXCEPT !.activeUsers =
                 SelectSeq(prev, LAMBDA u : u.socketId # socketId)])

\* the user opens the room view or the direct chat with a listed user
SetActiveChatTarget(target) ==
    /\ target # activeChatTarget
    /\ target = ROOM \/ FindUser(activeUsers, target)
    /\ CommitClient(handleSetActiveChatTarget(Client, target))

(***************************************************************************)
(* sendMessage.  The function awaits crypto.subtle three times: the export *)
(* of the own public key, the self-healing derivation, the encryption.     *)
(***************************************************************************)
Undefined == "undefined"

SendTask(pc, text, isDirect, targetSocketId, targetUsername, publicKey, key, users) ==
    [pc |-> pc, text |-> text, isDirect |-> isDirect, targetSocketId |-> targetSocketId,
     targetUsername |-> targetUsername, publicKey |-> publicKey, key |-> key,
     users |-> users]

RemoveAt(seq, k) == [j \in 1..(Len(seq) - 1) |-> IF j < k THEN seq[j] ELSE seq[j + 1]]

\* the call up to "await exportPublicKeyJwk": the values of the render it closes over
sendMessage(C, text) ==
    [C EXCEPT !.sendTasks =
        Append(@, SendTask("export", text, C.activeChatTarget # ROOM, C.activeChatTarget,
                           Undefined, Undefined, {}, C.activeUsers))]

SendMessage(text) ==
    /\ Len(sendTasks) < MaxCalls
    /\ CommitClient(sendMessage(Client, text))

\* two calls of sendMessage, the second made while the first is in progress
Pending(text) == \E k \in 1..Len(sendTasks) : sendTasks[k].text = text
SendInTurn(text) ==
    /\ text = OrderTexts[1] => sendTasks = <<>>
    /\ text = OrderTexts[2] => Pending(OrderTexts[1]) /\ ~Pending(OrderTexts[2])
    /\ CommitClient(sendMessage(Client, text))

\* the callback of activeUsers.forEach, up to its first await
RECURSIVE groupTasks(_, _, _)
groupTasks(C, text, users) ==
    IF users = <<>> THEN <<>>
    ELSE LET user == Head(users)
             rest == groupTasks(C, text, Tail(users))
         IN  IF user.socketId \in DOMAIN C.sharedSecretsRef
             THEN <<SendTask("encrypt", text, FALSE, user.socketId, user.username,
                             user.publicKey, C.sharedSecretsRef[user.socketId], <<>>)>>
                  \o rest
             ELSE IF user.publicKey # ""
             THEN <<SendTask("derive", text, FALSE, user.socketId, user.username,
                             user.publicKey, {}, <<>>)>> \o rest
             ELSE rest

\* sendMessage after the export, up to the next await of every branch
AfterExport(k) ==
    /\ k \in 1..Len(sendTasks)
    /\ sendTasks[k].pc = "export"
    /\ LET task == sendTasks[k]
           rest == RemoveAt(sendTasks, k)
           targetSocketId == task.targetSocketId
           targetUsername ==
               IF FindUser(task.users, targetSocketId)
               THEN task.users[CHOOSE i \in 1..Len(task.users) :
                                   task.users[i].socketId = targetSocketId].username
               ELSE Undefined
           new == IF task.isDirect
                  THEN IF targetSocketId \in DOMAIN sharedSecretsRef
                       THEN <<SendTask("encrypt", task.text, TRUE, targetSocketId,
                                       targetUsername, Undefined,
                                       sharedSecretsRef[targetSocketId], <<>>)>>
                       ELSE <<>>
                  ELSE groupTasks(Client, task.text, task.users)
       IN  /\ Len(rest) + Len(new) <= MaxSendTasks
           /\ CommitClient([Client EXCEPT !.sendTasks = rest \o new])

\* "Self-Healing": the missing secret is derived, cached and used
SelfHealDerived(k) ==
    /\ k \in 1..Len(sendTasks)
    /\ sendTasks[k].pc = "derive"
    /\ LET task == sendTasks[k]
           secret == deriveSharedSecret(OwnPublicKey, task.publicKey)
       IN  IF importPublicKeyJwk(task.publicKey)
           THEN CommitClient([Client EXCEPT
                    !.sharedSecretsRef = Put(@, task.targetSocketId, secret),
                    !.sendTasks = RemoveAt(sendTasks, k)
                                  \o <<[task EXCEPT !.pc = "encrypt", !.key = secret]>>])
           ELSE CommitClient([Client EXCEPT !.sendTasks = RemoveAt(sendTasks, k)])

\* the encryption is done: the event is emitted
EncryptDone(k) ==
    /\ k \in 1..Len(sendTasks)
    /\ sendTasks[k].pc = "encrypt"
    /\ LET task == sendTasks[k]
       IN  CommitClient(ClientEmit(
               [Client EXCEPT !.sendTasks = RemoveAt(sendTasks, k)],
               "send-message",
               [targetSocketId |-> task.targetSocketId,
                targetUsername |-> task.targetUsername,
                payload |-> [senderPublicKeyJwkString |-> OwnPublicKey,
                             encrypted |-> encryptText(task.text, task.key),
                             isDirect |-> task.isDirect],
                senderUsername |-> OwnUsername]))

(***************************************************************************)
(* socket.on('encrypted-message').  The handler awaits the derivation of a *)
(* missing secret and the decryption.  Of the message lists the model      *)
(* keeps what the last handler appended (lastMessage).                     *)
(***************************************************************************)
NoSecret == {}
RecvTask(pc, senderSocketId, senderUsername, payload, secret) ==
    [pc |-> pc, senderSocketId |-> senderSocketId, senderUsername |-> senderUsername,
     payload |-> payload, secret |-> secret]

\* what a peer sends: its text under the key it shares with this client
PeerMessage(peer, isDirect) ==
    [senderSocketId |-> peer.socketId, senderUsername |-> peer.username,
     payload |-> [senderPublicKeyJwkString |-> peer.publicKey,
                  encrypted |-> encryptText("hi",
                                   deriveSharedSecret(peer.publicKey, OwnPublicKey)),
                  isDirect |-> isDirect]]

\* variant: whatever the key, the data is taken for the text
decryptText_any(encrypted, secret) == TRUE
\* decryptText(data, iv, secret) gives the text under the key of the data only
decryptText(encrypted, secret) == encrypted.key = secret

\* the handler is through with the envelope; `added' is what it appended to
\* roomMessages or directMessages
settle(C, task, added) == [C EXCEPT !.lastMessage = <<[task |-> task, added |-> added]>>]

\* the handler up to its first await
OnEncryptedMessage(data) ==
    /\ Len(recvTasks) < MaxRecvTasks
    /\ \A target \in DOMAIN unreadCounts : unreadCounts[target] < MaxUnread
    /\ LET task(pc, secret) ==
               RecvTask(pc, data.senderSocketId, data.senderUsername, data.payload,
                        secret)
       IN  IF data.senderSocketId \in DOMAIN sharedSecretsRef
           THEN CommitClient([Client EXCEPT !.recvTasks =
                    Append(@, task("decrypt", sharedSecretsRef[data.senderSocketId]))])
           ELSE IF data.payload.senderPublicKeyJwkString # ""
           THEN CommitClient([Client EXCEPT !.recvTasks =
                    Append(@, task("derive", NoSecret))])
           ELSE CommitClient(settle(Client, task("return", NoSecret), <<>>))

\* the secret derived from the key in the payload is cached and used
MessageKeyDerived(k) ==
    /\ k \in 1..Len(recvTasks)
    /\ recvTasks[k].pc = "derive"
    /\ LET task == recvTasks[k]
           peerKey == task.payload.senderPublicKeyJwkString
           secret == deriveSharedSecret(OwnPublicKey, peerKey)
       IN  IF importPublicKeyJwk(peerKey)
           THEN CommitClient([Client EXCEPT
                    !.sharedSecretsRef = Put(@, task.senderSocketId, secret),
                    !.recvTasks = RemoveAt(recvTasks, k)
                                  \o <<[task EXCEPT !.pc = "decrypt", !.secret = secret]>>])
           ELSE CommitClient(settle([Client EXCEPT !.recvTasks = RemoveAt(recvTasks, k)],
                                     task, <<>>))

\* senderProfile?.username || senderUsername || 'Unknown'; a direct message
\* is filed in directMessages[displayName]
displayName(users, senderSocketId, senderUsername) ==
    IF FindUser(users, senderSocketId)
          /\ users[CHOOSE i \in 1..Len(users) : users[i].socketId = senderSocketId].username # ""
    THEN users[CHOOSE i \in 1..Len(users) : users[i].socketId = senderSocketId].username
    ELSE IF senderUsername # "" THEN senderUsername ELSE "Unknown"

\* the decryption is done: the sender is listed, the message counted as unread
MessageDecrypted(k) ==
    /\ k \in 1..Len(recvTasks)
    /\ recvTasks[k].pc = "decrypt"
    /\ LET task == recvTasks[k]
           payload == task.payload
           senderSocketId == task.senderSocketId
           C0 == [Client EXCEPT !.recvTasks = RemoveAt(recvTasks, k)]
           currentTarget == activeChatTarget
           C1 == IF payload.isDirect /\ ~FindUser(activeUsers, senderSocketId)
                 THEN [C0 EXCEPT !.activeUsers =
                          Append(@, Peer(senderSocketId, task.senderUsername,
                                         payload.senderPublicKeyJwkString))]
                 ELSE C0
           counted == IF payload.isDirect THEN senderSocketId ELSE ROOM
           newMessage == [text |-> payload.encrypted.text, senderIsSelf |-> FALSE,
                          senderSocketId |-> senderSocketId,
                          senderName |-> displayName(activeUsers, senderSocketId,
                                                     task.senderUsername),
                          isDirect |-> payload.isDirect]
       IN  IF decryptText(payload.encrypted, task.secret)
           THEN CommitClient(settle(
                    IF currentTarget # counted
                    THEN [C1 EXCEPT !.unreadCounts =
                             Put(@, counted, Count(@, counted) + 1)]
                    ELSE C1,
                    task, <<newMessage>>))
           ELSE CommitClient(settle(C0, task, <<>>))

(***************************************************************************)
(* File transfer: the sender's side.                                       *)
(***************************************************************************)
\* uniquePeersMap: the online users other than this client, one per socket id
RECURSIVE uniquePeers(_, _)
uniquePeers(users, seen) ==
    IF users = <<>> THEN <<>>
    ELSE LET u == Head(users)
         IN  IF u.socketId # OwnSocketId /\ u.isOnline /\ u.socketId \notin seen
             THEN <<u.socketId>> \o uniquePeers(Tail(users), seen \cup {u.socketId})
             ELSE uniquePeers(Tail(users), seen)

initiateTransfer(C, file, chunks, targetSocketId, peerId) ==
    LET transferId == C.nextTransferId
        transferState ==
            [transferId |-> transferId, fileName |-> file.name, fileSize |-> file.size,
             fileType |-> file.type, chunksTotal |-> Len(chunks), chunksReceived |-> 0,
             progress |-> 0, status |-> "pending", isUpload |-> TRUE,
             peerSocketId |-> peerId, isDirect |-> targetSocketId # ROOM]
        C1 == [C EXCEPT !.nextTransferId = @ + 1,
                        !.pendingFileChunks = Put(@, transferId, chunks)]
        C2 == setTransferInRef(C1, transferId, transferState)
        C3 == setActiveTransfers(C2, Put(C2.activeTransfers, transferId, transferState))
    IN  ClientEmit(C3, "file-offer",
            [targetSocketId |-> peerId,
             metadata |-> [transferId |-> transferId, fileName |-> file.name,
                           fileSize |-> file.size, fileType |-> file.type,
                           totalChunks |-> Len(chunks),
                           isDirect |-> targetSocketId # ROOM]])

RECURSIVE initiateAll(_, _, _, _)
initiateAll(C, file, chunks, peers) ==
    IF peers = <<>> THEN C
    ELSE initiateAll(initiateTransfer(C, file, chunks, ROOM, Head(peers)),
                     file, chunks, Tail(peers))

\* startFileTransfer: nothing happens while isSendingRef is set; the lock is
\* released by a timer set when the call ends
startFileTransfer(C, file, targetSocketId) ==
    IF C.isSendingRef THEN C
    ELSE
    LET C0 == [C EXCEPT !.isSendingRef = TRUE]
        chunks == sliceFile(file)
        peers == uniquePeers(C.activeUsers, {})
        C1 == IF targetSocketId = ROOM
              THEN IF peers = <<>>
                   THEN addSystemMessage(C0, "No other users in room to send file to.",
                                         "ERROR")
                   ELSE initiateAll(addSystemMessage(C0, "Broadcasting file", "GENERAL"),
                                    file, chunks, peers)
              ELSE IF ~FindUser(C.activeUsers, targetSocketId)
                   THEN addSystemMessage(C0, "Cannot send file. User is offline.", "ERROR")
                   ELSE addSystemMessage(
                            initiateTransfer(C0, file, chunks, targetSocketId,
                                             targetSocketId),
                            "Sent file offer", "GENERAL")
    IN  setTimeout(C1, "release", 0)

\* startFileTransfer(file, 'ROOM') called as the context exposes it
BroadcastFile(file) ==
    /\ ~isSendingRef
    /\ LET C1 == startFileTransfer(Client, file, ROOM)
       IN  /\ C1.nextTransferId <= MaxBroadcast + 1
           /\ CommitClient(C1)

StartFileTransfer(file, targetSocketId) ==
    /\ ~isSendingRef
    /\ LET C1 == startFileTransfer(Client, file, targetSocketId)
       IN  /\ C1.nextTransferId <= MaxUploads + 1
           /\ CommitClient(C1)

\* handleFileSelect (the file input of the chat window): in the room view the
\* file is sent to each listed user in turn, otherwise to the chat target
RECURSIVE sendToEach(_, _, _)
sendToEach(C, file, users) ==
    IF users = <<>> THEN C
    ELSE sendToEach(startFileTransfer(C, file, Head(users).socketId), file, Tail(users))

handleFileSelect(C, file) ==
    IF C.activeChatTarget = ROOM
    THEN sendToEach(C, file, C.activeUsers)
    ELSE startFileTransfer(C, file, C.activeChatTarget)

HandleFileSelect(file) ==
    LET C1 == handleFileSelect(Client, file)
    IN  /\ C1.nextTransferId <= MaxBroadcast + 1
        /\ CommitClient(C1)

\* sendChunks from iteration i up to its next await, or to its end
RECURSIVE sendChunks(_, _, _, _, _)
sendChunks(C, transferId, targetSocketId, chunks, i) ==
    IF i < Len(chunks)
    THEN IF transferId \notin DOMAIN C.activeTransfersRef
         THEN [C |-> C, i |-> i, awaiting |-> FALSE]
         ELSE LET C1 == ClientEmit(C, "file-chunk",
                            [targetSocketId |-> targetSocketId, transferId |-> transferId,
                             chunkId |-> i, data |-> chunks[i + 1]])
                  progress == RoundPercent(i + 1, Len(chunks))
                  prevProgress == RoundPercent(i, Len(chunks))
                  C2 == IF progress > prevProgress
                        THEN updateTransferState(C1, transferId,
                                 [chunksReceived |-> i + 1, progress |-> progress])
                        ELSE C1
              IN  IF i % YIELD_EVERY = 0
                  THEN [C |-> C2, i |-> i + 1, awaiting |-> TRUE]
                  ELSE CHOOSE r \in {sendChunks(D, transferId, targetSocketId, chunks, i + 1) :
                                      D \in {C2}} : TRUE
    ELSE LET C1 == ClientEmit(C, "file-complete",
                       [targetSocketId |-> targetSocketId, transferId |-> transferId])
             C2 == IF transferId \in DOMAIN C1.activeTransfersRef
                   THEN setTimeout(
                            addSystemMessage(
                                updateTransferState(C1, transferId,
                                    [status |-> "completed", progress |-> 100]),
                                "File sent", "WEBRTC_STATUS"),
                            "remove", transferId)
                   ELSE C1
         IN  [C |-> C2, i |-> i, awaiting |-> FALSE]

\* the 'file-accept' handler around sendChunks: what follows "await sendChunks"
afterSendChunks(r, loop, rest) ==
    IF r.awaiting
    THEN [r.C EXCEPT !.sendLoops = rest \o <<[loop EXCEPT !.i = r.i]>>]
    ELSE [r.C EXCEPT !.sendLoops = rest,
                     !.pendingFileChunks = Del(@, loop.transferId)]

\* the 'file-accept' handler up to its first await, or to its end
fileAccept(C, transferId) ==
    IF transferId \notin DOMAIN C.activeTransfersRef
       \/ ~C.activeTransfersRef[transferId].isUpload
    THEN C
    ELSE LET transfer == C.activeTransfersRef[transferId]
             C0 == addSystemMessage(C, "File accepted! Sending", "GENERAL")
         IN  IF transferId \in DOMAIN C.pendingFileChunks
             THEN LET chunks == C.pendingFileChunks[transferId]
                      C1 == updateTransferState(C0, transferId,
                                [status |-> "transferring", chunksTotal |-> Len(chunks)])
                      loop == [transferId |-> transferId,
                               targetSocketId |-> transfer.peerSocketId,
                               chunks |-> chunks, i |-> 0]
                  IN  afterSendChunks(
                          sendChunks(C1, transferId, transfer.peerSocketId, chunks, 0),
                          loop, C.sendLoops)
             ELSE addSystemMessage(C0, "Error: File data not found", "ERROR")

OnFileAccept(transferId) ==
    /\ Len(sendLoops) < MaxLoops
    /\ CommitClient(fileAccept(Client, transferId))

\* a suspended sendChunks call continues after its setTimeout(r, 0)
resumeSendChunks(C, k) ==
    LET loop == C.sendLoops[k]
        rest == [j \in 1..(Len(C.sendLoops) - 1) |->
                    IF j < k THEN C.sendLoops[j] ELSE C.sendLoops[j + 1]]
    IN  afterSendChunks(
            sendChunks(C, loop.transferId, loop.targetSocketId, loop.chunks, loop.i),
            loop, rest)

ResumeSendChunks(k) ==
    /\ k \in 1..Len(sendLoops)
    /\ CommitClient(resumeSendChunks(Client, k))

\* history: the transfer, known to this client, was declined or cancelled
end(C, transferId, how) ==
    IF transferId \in DOMAIN C.activeTransfers
    THEN [C EXCEPT !.ended = Put(@, transferId,
                                 [how |-> how, was |-> C.activeTransfers[transferId].status])]
    ELSE C

OnFileDecline(transferId) ==
    CommitClient(removeTransfer(
        addSystemMessage(end(Client, transferId, "declined"),
                         "File transfer declined.", "ERROR"), transferId))

CancelTransfer(transferId) ==
    /\ transfersSynced
    /\ transferId \in DOMAIN activeTransfers
    /\ LET transfer == activeTransfers[transferId]
       IN  /\ \/ transfer.status = "pending" /\ transfer.isUpload
              \/ transfer.status = "transferring"
           /\ CommitClient(addSystemMessage(
                  removeTransfer(
                      ClientEmit(end(Client, transferId, "cancelled"), "file-cancel",
                          [targetSocketId |-> transfer.peerSocketId,
                           transferId |-> transferId]),
                      transferId),
                  "Cancelled", "ERROR"))

(***************************************************************************)
(* File transfer: the receiver's side.                                     *)
(***************************************************************************)
\* the metadata a sending client puts in its 'file-offer' (initiateTransfer)
OfferMetadata(transferId, file, isDirect) ==
    [transferId |-> transferId, fileName |-> file.name, fileSize |-> file.size,
     fileType |-> file.type, totalChunks |-> Len(sliceFile(file)), isDirect |-> isDirect]

fileOffer(C, senderSocketId, data) ==
    LET transferState ==
            [transferId |-> data.transferId, fileName |-> data.fileName,
             fileSize |-> data.fileSize, fileType |-> data.fileType,
             chunksTotal |-> data.totalChunks, chunksReceived |-> 0, progress |-> 0,
             status |-> "pending", isUpload |-> FALSE, peerSocketId |-> senderSocketId,
             isDirect |-> data.isDirect]
        C1 == [C EXCEPT !.fileChunksRef = Put(@, data.transferId, <<>>),
                        !.ended = Del(@, data.transferId)]
        C2 == setTransferInRef(C1, data.transferId, transferState)
        C3 == setActiveTransfers(C2, Put(C2.activeTransfers, data.transferId, transferState))
    IN  addSystemMessage(C3, "File offer", "WEBRTC_STATUS")

OnFileOffer(senderSocketId, data) == CommitClient(fileOffer(Client, senderSocketId, data))

\* the Accept button is shown for a pending download of the rendered state
canAccept(C, transferId) ==
    /\ C.transfersSynced
    /\ transferId \in DOMAIN C.activeTransfers
    /\ C.activeTransfers[transferId].status = "pending"
    /\ ~C.activeTransfers[transferId].isUpload

acceptFileTransfer(C, transferId) ==
    LET transfer == C.activeTransfers[transferId]
    IN  addSystemMessage(
            updateTransferState(
                ClientEmit(C, "file-accept",
                    [targetSocketId |-> transfer.peerSocketId,
                     transferId |-> transferId]),
                transferId, [status |-> "transferring"]),
            "Accepting file", "GENERAL")

AcceptFileTransfer(transferId) ==
    /\ canAccept(Client, transferId)
    /\ CommitClient(acceptFileTransfer(Client, transferId))

DeclineFileTransfer(transferId) ==
    /\ transfersSynced
    /\ transferId \in DOMAIN activeTransfers
    /\ LET transfer == activeTransfers[transferId]
       IN  /\ transfer.status = "pending" /\ ~transfer.isUpload
           /\ CommitClient(addSystemMessage(
                  removeTransfer(
                      ClientEmit(end(Client, transferId, "declined"), "file-decline",
                          [targetSocketId |-> transfer.peerSocketId,
                           transferId |-> transferId]),
                      transferId),
                  "Declined file", "GENERAL"))

fileChunk(C, transferId, chunkId, data) ==
    LET chunksMap == IF transferId \in DOMAIN C.fileChunksRef
                     THEN C.fileChunksRef[transferId] ELSE <<>>
        C1 == [C EXCEPT !.fileChunksRef =
                            Put(@, transferId, MapSet(chunksMap, chunkId, data))]
        prev == C1.activeTransfers
    IN  IF transferId \notin DOMAIN prev \/ prev[transferId].status # "transferring"
        THEN C1
        ELSE LET transfer == prev[transferId]
                 chunksReceived == Len(C1.fileChunksRef[transferId])
                 progress == RoundPercent(chunksReceived, transfer.chunksTotal)
             IN  IF progress = transfer.progress /\ progress < 100
                 THEN C1
                 ELSE setActiveTransfers(C1,
                          Put(prev, transferId,
                              Merge(transfer, [chunksReceived |-> chunksReceived,
                                               progress |-> progress])))

OnFileChunk(transferId, chunkId, data) ==
    CommitClient(fileChunk(Client, transferId, chunkId, data))

\* "Force Filename": the name given in the offer unless it is blank
safeName(transfer) ==
    IF transfer.fileName # "" THEN transfer.fileName ELSE "received_file.bin"

\* variant: no transfer counts as processed
processed_never(C, transferId) == FALSE
\* "1. Absolute Guard": processedTransferIds.current.has(transferId)
processed(C, transferId) == transferId \in C.processedTransferIds

\* the 'file-complete' handler
fileComplete(C, transferId) ==
    IF processed(C, transferId)
    THEN C
    ELSE IF transferId \notin DOMAIN C.activeTransfersRef
            \/ C.activeTransfersRef[transferId].status = "completed"
    THEN C
    ELSE
    LET transfer == C.activeTransfersRef[transferId]
        C1 == setTransferInRef(
                  [C EXCEPT !.processedTransferIds = @ \cup {transferId}],
                  transferId, Merge(transfer, [status |-> "completed", progress |-> 100]))
        \* "3. Update React State" and "4. Cleanup UI"
        finish(D) == setTimeout(
                         updateTransferState(D, transferId,
                             [status |-> "completed", progress |-> 100]),
                         "remove", transferId)
    IN  IF transfer.isUpload
        THEN finish(addSystemMessage(C1, "File sent", "WEBRTC_STATUS"))
        ELSE IF transferId \notin DOMAIN C.fileChunksRef
                \/ Len(C.fileChunksRef[transferId]) = 0
        THEN addSystemMessage(C1, "Error: Received empty file.", "ERROR")
        ELSE
        LET blob == reassembleFile(C.fileChunksRef[transferId], transfer.chunksTotal,
                                   transfer.fileType)
        IN  IF BlobSize(blob) = 0
            THEN addSystemMessage(C1, "Error: File corrupted (0 bytes).", "ERROR")
            ELSE finish(addSystemMessage(
                     setTimeout(
                         [C1 EXCEPT !.downloads =
                              Append(@, [transferId |-> transferId,
                                         download |-> safeName(transfer),
                                         blob |-> blob])],
                         "cleanup", transferId),
                     "File received", "WEBRTC_STATUS"))

Completions(transferId) ==
    IF transferId \in DOMAIN completions THEN completions[transferId] ELSE 0

OnFileComplete(transferId) ==
    /\ Completions(transferId) < MaxCompletions
    /\ CommitClient(fileComplete(
           [Client EXCEPT !.completions = Put(@, transferId, Completions(transferId) + 1)],
           transferId))

OnFileCancel(transferId) ==
    IF transferId \notin DOMAIN activeTransfers
    THEN CommitClient(Client)
    ELSE CommitClient(removeTransfer(
             addSystemMessage(end(Client, transferId, "cancelled"), "Peer cancelled", "ERROR"),
             transferId))

\* the callbacks scheduled with setTimeout
clientTimer(C, t) ==
    LET C0 == [C EXCEPT !.clientTimers = @ \ {t}]
    IN  CASE t.kind = "release" -> [C0 EXCEPT !.isSendingRef = FALSE]
          [] t.kind = "remove" -> removeTransfer(C0, t.transferId)
          [] t.kind = "cleanup" -> [C0 EXCEPT !.fileChunksRef = Del(@, t.transferId)]

ClientTimer(t) ==
    /\ t \in clientTimers
    /\ t.kind = "cleanup" =>
           [kind |-> "remove", transferId |-> t.transferId] \notin clientTimers
    /\ CommitClient(clientTimer(Client, t))

(***************************************************************************)
(* Identity and identity keys: the effect that runs initIdentityAndKeys    *)
(* when ChatProvider mounts.  The identity is kept in the sessionStorage   *)
(* of the tab, the key pair in the IndexedDB store 'keys' of the origin.   *)
(* A CryptoKey is <<n>> for the n-th generateKey call; <<>> is undefined.   *)
(***************************************************************************)
NoKey == <<>>
NoKeyPair == [publicKey |-> NoKey, privateKey |-> NoKey]
NoIdentity == ""
\* no run has finished yet
NoRun ==
    [finished |-> FALSE, keys |-> NoKeyPair, generated |-> FALSE, alone |-> FALSE,
     second |-> FALSE, first |-> NoKeyPair]

\* a closed tab: nothing in sessionStorage, nothing mounted
ClosedTab ==
    [open |-> FALSE, session |-> NoIdentity, userIdentity |-> NoIdentity,
     ownKeyPair |-> NoKeyPair, pc |-> "idle", storedPublicKey |-> NoKey,
     keys |-> NoKeyPair, generated |-> FALSE, alone |-> FALSE]

InFlight(ts) == {t \in DOMAIN ts : ts[t].open /\ ts[t].pc \notin {"idle", "done"}}

\* generateAppKeyPair(): a fresh ECDH key pair
generateAppKeyPair(n) == [publicKey |-> <<n>>, privateKey |-> <<n>>]
\* getKey(keyName) / storeKey(keyName, key)
getKey(store, keyName) == store[keyName]
storeKey(store, keyName, key) == [store EXCEPT ![keyName] = key]

\* variant: the stored keys are not looked at
restored_never(storedPublicKey, storedPrivateKey) == FALSE
\* "if (storedPublicKey && storedPrivateKey)"
restored(storedPublicKey, storedPrivateKey) ==
    storedPublicKey # NoKey /\ storedPrivateKey # NoKey

\* ChatProvider mounts in tab t: initIdentityAndKeys up to its first await
mount(ts, t, name) ==
    LET identity == IF ts[t].session # NoIdentity THEN ts[t].session ELSE name
        others == InFlight(ts) \ {t}
    IN  [u \in DOMAIN ts |->
            IF u = t
            THEN [ClosedTab EXCEPT !.open = TRUE, !.session = identity,
                                   !.userIdentity = identity, !.pc = "getPublic",
                                   !.alone = (others = {})]
            ELSE IF u \in others THEN [ts[u] EXCEPT !.alone = FALSE]
            ELSE ts[u]]

\* the user opens the application in a new tab
OpenTab(t, name) ==
    /\ ~tabs[t].open
    /\ tabs' = mount(tabs, t, name)
    /\ UNCHANGED <<keyStore, nextKeyId, lastRun, destroyed>>
    /\ UNCHANGED <<relayVars, rateVars, chatVars, link, session>>

\* the user reloads the page: the sessionStorage of the tab survives
ReloadTab(t, name) ==
    /\ tabs[t].open
    /\ tabs' = mount(tabs, t, name)
    /\ UNCHANGED <<keyStore, nextKeyId, lastRun, destroyed>>
    /\ UNCHANGED <<relayVars, rateVars, chatVars, link, session>>

\* the user closes the tab: its sessionStorage and its memory are gone
CloseTab(t) ==
    /\ tabs[t].open
    /\ tabs' = [tabs EXCEPT ![t] = ClosedTab]
    /\ destroyed' = IF \E u \in DOMAIN tabs : u # t /\ tabs[u].open
                     THEN destroyed
                     ELSE destroyed \cup
                            ({tabs[t].ownKeyPair.publicKey,
                              tabs[t].ownKeyPair.privateKey} \ {NoKey})
    /\ UNCHANGED <<keyStore, nextKeyId, lastRun>>
    /\ UNCHANGED <<relayVars, rateVars, chatVars, link, session>>

\* the run of tab t ends with the key pair it set
finish(ts, t, keyPair) ==
    [ts EXCEPT ![t].ownKeyPair = keyPair, ![t].pc = "done"]
\* history: the run of tab t finishes; it is the second of two runs in
\* succession when it overlapped no other run and neither did the run that
\* finished before it
Finished(t, keyPair) ==
    LET second == tabs[t].alone /\ lastRun.finished /\ lastRun.alone
    IN  [finished |-> TRUE, keys |-> keyPair, generated |-> tabs[t].generated,
         alone |-> tabs[t].alone, second |-> second,
         first |-> IF second THEN lastRun.keys ELSE NoKeyPair]

\* "await getKey('publicKey')" is answered
GetPublicKey(t) ==
    /\ tabs[t].open /\ tabs[t].pc = "getPublic"
    /\ tabs' = [tabs EXCEPT ![t].storedPublicKey = getKey(keyStore, "publicKey"),
                            ![t].pc = "getPrivate"]
    /\ UNCHANGED <<keyStore, nextKeyId, lastRun, destroyed>>
    /\ UNCHANGED <<relayVars, rateVars, chatVars, link, session>>

\* "await getKey('privateKey')" is answered: restore, or start generating
GetPrivateKey(t) ==
    /\ tabs[t].open /\ tabs[t].pc = "getPrivate"
    /\ LET storedPrivateKey == getKey(keyStore, "privateKey")
           keyPair == [publicKey |-> tabs[t].storedPublicKey,
                       privateKey |-> storedPrivateKey]
       IN  IF restored(tabs[t].storedPublicKey, storedPrivateKey)
           THEN /\ tabs' = finish(tabs, t, keyPair)
                /\ lastRun' = Finished(t, keyPair)
           ELSE /\ tabs' = [tabs EXCEPT ![t].pc = "generate"]
                /\ lastRun' = lastRun
    /\ UNCHANGED <<keyStore, nextKeyId, destroyed>>
    /\ UNCHANGED <<relayVars, rateVars, chatVars, link, session>>

\* "await generateAppKeyPair()" is answered
KeysGenerated(t) ==
    /\ tabs[t].open /\ tabs[t].pc = "generate"
    /\ nextKeyId <= MaxKeyPairs
    /\ tabs' = [tabs EXCEPT ![t].keys = generateAppKeyPair(nextKeyId),
                            ![t].generated = TRUE, ![t].pc = "storePublic"]
    /\ nextKeyId' = nextKeyId + 1
    /\ UNCHANGED <<keyStore, lastRun, destroyed>>
    /\ UNCHANGED <<relayVars, rateVars, chatVars, link, session>>

\* "await storeKey('publicKey', keys.publicKey)" is done
PublicKeyStored(t) ==
    /\ tabs[t].open /\ tabs[t].pc = "storePublic"
    /\ keyStore' = storeKey(keyStore, "publicKey", tabs[t].keys.publicKey)
    /\ tabs' = [tabs EXCEPT ![t].pc = "storePrivate"]
    /\ UNCHANGED <<nextKeyId, lastRun, destroyed>>
    /\ UNCHANGED <<relayVars, rateVars, chatVars, link, session>>

\* "await storeKey('privateKey', keys.privateKey)" is done: setOwnKeyPair(keys)
PrivateKeyStored(t) ==
    /\ tabs[t].open /\ tabs[t].pc = "storePrivate"
    /\ keyStore' = storeKey(keyStore, "privateKey", tabs[t].keys.privateKey)
    /\ tabs' = finish(tabs, t, tabs[t].keys)
    /\ lastRun' = Finished(t, tabs[t].keys)
    /\ UNCHANGED <<nextKeyId, destroyed>>
    /\ UNCHANGED <<relayVars, rateVars, chatVars, link, session>>

InitIdentity ==
    /\ tabs = [t \in 1..MaxTabs |-> ClosedTab]
    /\ keyStore = NoKeyPair
    /\ nextKeyId = 1
    /\ lastRun = NoRun
    /\ destroyed = {}

InitChat ==
    /\ InitIdentity
    /\ activeUsers = <<>>
    /\ sharedSecretsRef = EmptyMap
    /\ activeChatTarget = ROOM
    /\ keyTasks = {}
    /\ sendTasks = <<>>
    /\ activeTransfers = EmptyMap
    /\ activeTransfersRef = EmptyMap
    /\ transfersSynced = TRUE
    /\ fileChunksRef = EmptyMap
    /\ processedTransferIds = {}
    /\ pendingFileChunks = EmptyMap
    /\ isSendingRef = FALSE
    /\ nextTransferId = 1
    /\ sendLoops = <<>>
    /\ clientTimers = {}
    /\ downloads = <<>>
    /\ completions = EmptyMap
    /\ emitted = <<>>
    /\ shown = <<>>
    /\ unreadCounts = EmptyMap
    /\ recvTasks = <<>>
    /\ online = EmptyMap
    /\ migration = {}
    /\ migratedKey = EmptyMap
    /\ ended = EmptyMap
    /\ dataSent = EmptyMap
    /\ lastMessage = <<>>

InitClient == InitChat /\ link = <<>> /\ session = <<>>

(***************************************************************************)
(* The relay's file-transfer handlers: 'file-offer', 'file-accept',        *)
(* 'file-decline', 'file-chunk', 'file-complete' and 'file-cancel'.  Chunk *)
(* data is a binary slice (it has a byteLength), a string (it has a length *)
(* and no byteLength) or absent.                                           *)
(***************************************************************************)
NoData == [kind |-> "undefined"]
NoMetadata == [kind |-> "undefined"]
TextData(n) == [kind |-> "string", length |-> n]

\* variant: the offer is forwarded with the sender's own field names
fileOfferHandler_asSent(R, s, targetSocketId, metadata, fileMetadata) ==
    IF metadata # NoMetadata \/ fileMetadata # NoMetadata
    THEN ioTo(R, targetSocketId, "file-offer",
              [senderSocketId |-> s, metadata |-> metadata,
               fileMetadata |-> fileMetadata])
    ELSE R

fileOfferHandler(R, s, targetSocketId, metadata, fileMetadata) ==
    LET finalMetadata == IF metadata # NoMetadata THEN metadata ELSE fileMetadata
    IN  IF finalMetadata # NoMetadata
        THEN ioTo(R, targetSocketId, "file-offer",
                  [senderSocketId |-> s, metadata |-> finalMetadata,
                   fileMetadata |-> finalMetadata])
        ELSE R

\* 'file-accept', 'file-decline', 'file-complete', 'file-cancel'
fileSignalHandler(R, ev, targetSocketId, transferId) ==
    ioTo(R, targetSocketId, ev, [transferId |-> transferId])

\* data && data.byteLength > 66000: a value without byteLength compares false
oversized(data) == data.kind = "plain" /\ byteLength(data) > MAX_CHUNK_BYTES

\* variant: the older relay (server/index.js), which has no size check
fileChunkHandler_unchecked(R, targetSocketId, transferId, chunkId, data) ==
    ioTo(R, targetSocketId, "file-chunk",
         [transferId |-> transferId, chunkId |-> chunkId, data |-> data])

fileChunkHandler(R, targetSocketId, transferId, chunkId, data) ==
    IF oversized(data) THEN R
    ELSE ioTo(R, targetSocketId, "file-chunk",
              [transferId |-> transferId, chunkId |-> chunkId, data |-> data])

RelayFileOffer(s, targetSocketId, metadata, fileMetadata) ==
    /\ s \in sockets
    /\ Commit([fileOfferHandler(Relay, s, targetSocketId, metadata, fileMetadata)
                  EXCEPT !.sent = <<[from |-> s, ev |-> "file-offer",
                                     targetSocketId |-> targetSocketId,
                                     metadata |-> metadata,
                                     fileMetadata |-> fileMetadata]>>])
    /\ UNCHANGED <<now, nextSocketId, clientIp, rateVars, clientVars>>

RelayFileSignal(s, ev, targetSocketId, transferId) ==
    /\ s \in sockets
    /\ Commit([fileSignalHandler(Relay, ev, targetSocketId, transferId)
                  EXCEPT !.sent = <<[from |-> s, ev |-> ev,
                                     targetSocketId |-> targetSocketId,
                                     transferId |-> transferId]>>])
    /\ UNCHANGED <<now, nextSocketId, clientIp, rateVars, clientVars>>

RelayFileChunk(s, targetSocketId, transferId, chunkId, data) ==
    /\ s \in sockets
    /\ Commit([fileChunkHandler(Relay, targetSocketId, transferId, chunkId, data)
                  EXCEPT !.sent = <<[from |-> s, ev |-> "file-chunk",
                                     targetSocketId |-> targetSocketId,
                                     transferId |-> transferId,
                                     chunkId |-> chunkId, data |-> data]>>])
    /\ UNCHANGED <<now, nextSocketId, clientIp, rateVars, clientVars>>

vars == <<relayVars, rateVars, clientVars>>

InitRelay ==
    /\ now = 0
    /\ nextSocketId = 1
    /\ sockets = {}
    /\ closing = {}
    /\ clientIp = EmptyMap
    /\ adapterRooms = EmptyMap
    /\ rooms = EmptyMap
    /\ socketToRoom = EmptyMap
    /\ allUsers = <<>>
    /\ socketRateLimits = EmptyMap
    /\ ipConnectionCounts = EmptyMap
    /\ timers = <<>>
    /\ emptiedAt = EmptyMap
    /\ inRoom = EmptyMap
    /\ sent = <<>>
    /\ out = {}

InitRate ==
    /\ handled = EmptyMap
    /\ windowStart = EmptyMap
    /\ received = EmptyMap

Init == InitRelay /\ InitRate /\ InitClient

SocketIds == 1..(MaxSockets + MaxRateSockets)

(***************************************************************************)
(* Spec: the presence registry of the relay.  Its event actions are the    *)
(* handlers, run for the events the rate-limit middleware let through.     *)
(***************************************************************************)
Next ==
    \/ \E ip \in Ips, version \in VersionInputs :
          nextSocketId <= MaxSockets /\ Connect(ip, version)
    \/ \E s \in SocketIds, username \in UsernameInputs, publicKey \in PublicKeyInputs,
          order \in EvictionOrders : RegisterUser(s, username, publicKey, order)
    \/ \E s \in SocketIds, roomId \in RoomIdInputs, username \in UsernameInputs,
          publicKey \in PublicKeyInputs, order \in EvictionOrders :
          JoinRoom(s, roomId, username, publicKey, order)
    \/ \E s \in SocketIds : LeaveRoom(s)
    \/ \E s \in SocketIds : Disconnect(s)
    \/ RoomTimer
    \/ \E d \in GraceTickSteps : Tick(d)

Spec == Init /\ [][Next]_vars

\* the client exchanging text messages
NextMessage ==
    \/ \E user \in MessagePeers : OnUserJoined(user)
    \/ \E socketId \in PeerSocketIds : OnUserLeft(socketId)
    \/ \E task \in keyTasks : KeyDerived(task)
    \/ \E target \in PeerSocketIds \cup {ROOM} : SetActiveChatTarget(target)
    \/ \E text \in TextInputs : SendMessage(text)
    \/ \E k \in 1..MaxSendTasks : AfterExport(k)
    \/ \E k \in 1..MaxSendTasks : SelfHealDerived(k)
    \/ \E k \in 1..MaxSendTasks : EncryptDone(k)

SpecMessage == Init /\ [][NextMessage]_vars

\* the client in direct chats with a peer that reconnects
Awaiting == Cardinality(keyTasks) + Len(sendTasks) + Len(recvTasks)
NextMigrate ==
    \/ \E user \in MigratePeers : Awaiting < MaxMigrateTasks /\ OnUserJoined(user)
    \/ \E users \in RoomUserLists : Awaiting < MaxMigrateTasks /\ OnRoomUsers(users)
    \/ \E socketId \in PeerSocketIds : OnUserLeft(socketId)
    \/ \E task \in keyTasks : KeyDerived(task)
    \/ \E target \in PeerSocketIds \cup {ROOM} : SetActiveChatTarget(target)
    \/ \E text \in TextInputs :
          Awaiting < MaxMigrateTasks /\ activeChatTarget # ROOM /\ SendMessage(text)
    \/ \E k \in 1..MaxSendTasks : AfterExport(k)
    \/ \E k \in 1..MaxSendTasks : EncryptDone(k)

SpecMigrate == Init /\ [][NextMigrate]_vars

\* the client receiving direct messages from a peer that reconnects
UnreadPeers == {Peer("p1", "U1", "pk1"), Peer("p2", "U1", "pk1")}
UnreadTargets == {"p1", "p2", ROOM}
NextUnread ==
    \/ \E user \in UnreadPeers : Awaiting < MaxMigrateTasks /\ OnUserJoined(user)
    \/ \E user \in UnreadPeers : Awaiting < MaxMigrateTasks /\ OnRoomUsers(<<user>>)
    \/ \E task \in keyTasks : KeyDerived(task)
    \/ \E target \in UnreadTargets : SetActiveChatTarget(target)
    \/ \E peer \in UnreadPeers :
          Awaiting < MaxMigrateTasks /\ OnEncryptedMessage(PeerMessage(peer, TRUE))
    \/ \E k \in 1..MaxRecvTasks : MessageKeyDerived(k)
    \/ \E k \in 1..MaxRecvTasks : MessageDecrypted(k)

SpecUnread == Init /\ [][NextUnread]_vars

\* the client sending files: the peer's answers are inputs
NextUpload ==
    \/ \E user \in TransferPeers : OnUserJoined(user)
    \/ \E task \in keyTasks : KeyDerived(task)
    \/ \E file \in FileInputs, target \in {"p1", ROOM} : StartFileTransfer(file, target)
    \/ \E id \in UploadIds : OnFileAccept(id)
    \/ \E k \in 1..MaxLoops : ResumeSendChunks(k)
    \/ \E id \in UploadIds : OnFileDecline(id)
    \/ \E id \in UploadIds : CancelTransfer(id)
    \/ \E id \in UploadIds : OnFileComplete(id)
    \/ \E id \in UploadIds : OnFileCancel(id)
    \/ \E t \in clientTimers : ClientTimer(t)
    \/ SyncTransfersRef

SpecUpload == Init /\ [][NextUpload]_vars

\* the client receiving files; what the peer sends is what the same client
\* sends for an upload: the offer of a file, the slices of that file, the
\* completion and the cancellation, in any order and any number of times
NextDownload ==
    \/ \E id \in DownloadIds, file \in FileInputs :
           OnFileOffer("p1", OfferMetadata(id, file, TRUE))
    \/ \E id \in DownloadIds : AcceptFileTransfer(id)
    \/ \E id \in DownloadIds : DeclineFileTransfer(id)
    \/ \E id \in DownloadIds, file \in FileInputs :
           \E i \in 1..Len(sliceFile(file)) :
               OnFileChunk(id, i - 1, sliceFile(file)[i])
    \/ \E id \in DownloadIds : OnFileComplete(id)
    \/ \E id \in DownloadIds : OnFileCancel(id)
    \/ \E id \in DownloadIds : CancelTransfer(id)
    \/ \E t \in clientTimers : ClientTimer(t)
    \/ SyncTransfersRef

SpecDownload == Init /\ [][NextDownload]_vars

(***************************************************************************)
(* SpecRate: the event-rate admission of the relay.                        *)
(***************************************************************************)
NextRate ==
    \/ \E ip \in Ips, version \in VersionInputs : RateConnect(ip, version)
    \/ \E s \in SocketIds : GetStats(s)
    \/ \E s \in SocketIds : RateDisconnect(s)
    \/ \E d \in RateTickSteps : RateTick(d)

SpecRate == Init /\ [][NextRate]_vars

(***************************************************************************)
(* SpecAdmit: connection admission (version gate, global cap, per-address  *)
(* cap) and the release of the slots.  The relay starts empty, or with     *)
(* MAX_GLOBAL_CONNECTIONS - 1 connections admitted from twenty addresses,  *)
(* five per address and four from the last one.                            *)
(***************************************************************************)
Crowd == MAX_GLOBAL_CONNECTIONS - 1
CrowdAddress(i) == AddressNames[((i - 1) \div MAX_CONNECTIONS_PER_IP) + 1]

InitAdmit ==
    \E crowd \in {0, Crowd} :
        /\ now = 0
        /\ nextSocketId = crowd + 1
        /\ sockets = 1..crowd
        /\ closing = {}
        /\ clientIp = [i \in 1..crowd |-> CrowdAddress(i)]
        /\ adapterRooms = [i \in 1..crowd |-> {}]
        /\ rooms = EmptyMap
        /\ socketToRoom = EmptyMap
        /\ allUsers = <<>>
        /\ socketRateLimits = EmptyMap
        /\ ipConnectionCounts =
               [ip \in {CrowdAddress(i) : i \in 1..crowd} |->
                   Cardinality({i \in 1..crowd : CrowdAddress(i) = ip})]
        /\ timers = <<>>
        /\ emptiedAt = EmptyMap
        /\ inRoom = EmptyMap
        /\ sent = <<>>
        /\ out = {}
        /\ InitRate
        /\ InitClient

\* the connections the relay started with
CrowdOf == IF 1 \in DOMAIN clientIp /\ clientIp[1] = AddressNames[1] THEN Crowd ELSE 0
\* the connections that act: those opened since the start, and the first one
Acts(s) == s = 1 \/ s > CrowdOf
AdmitIds == {n \in 1..(Crowd + MaxAdmitSockets) : n <= MaxAdmitSockets \/ n > Crowd}

NextAdmit ==
    \/ \E ip \in AdmitIps, version \in AdmitVersions :
          nextSocketId <= CrowdOf + MaxAdmitSockets /\ Connect(ip, version)
    \/ \E s \in AdmitIds, order \in EvictionOrders :
          Acts(s) /\ s > CrowdOf /\ RegisterUser(s, Ann, "pkA", order)
    \/ \E s \in AdmitIds : Acts(s) /\ Disconnect(s)

SpecAdmit == InitAdmit /\ [][NextAdmit]_vars

(***************************************************************************)
(* SpecIdentity: the tabs of one browser opening the application.          *)
(***************************************************************************)
TabIds == 1..MaxTabs
NextIdentity ==
    \/ \E t \in TabIds, name \in IdentityNames : OpenTab(t, name)
    \/ \E t \in TabIds, name \in IdentityNames : ReloadTab(t, name)
    \/ \E t \in TabIds : CloseTab(t)
    \/ \E t \in TabIds : GetPublicKey(t)
    \/ \E t \in TabIds : GetPrivateKey(t)
    \/ \E t \in TabIds : KeysGenerated(t)
    \/ \E t \in TabIds : PublicKeyStored(t)
    \/ \E t \in TabIds : PrivateKeyStored(t)

SpecIdentity == Init /\ [][NextIdentity]_vars

(***************************************************************************)
(* SpecDeliver: the relay of text messages against a directory that        *)
(* changes by registration, reclaim and disconnect; every connection       *)
(* comes from one address, so that a registration of a held name reclaims. *)
(***************************************************************************)
DeliverIds == 1..MaxDeliverSockets
NextDeliver ==
    \/ \E version \in VersionInputs :
          nextSocketId <= MaxDeliverSockets /\ Connect("ipA", version)
    \/ \E s \in DeliverIds, username \in MemberNames, publicKey \in PublicKeyInputs,
          order \in EvictionOrders : RegisterUser(s, username, publicKey, order)
    \/ \E s \in DeliverIds : Disconnect(s)
    \/ \E s \in DeliverIds, target \in {NoSocketId} \cup {<<i>> : i \in DeliverIds},
          username \in MemberNames \cup {NoName} :
          RelaySendMessage(s, target, username, "ciphertext", "sender")

SpecDeliver == Init /\ [][NextDeliver]_vars

(***************************************************************************)
(* SpecRooms: room membership and its announcements, with two rooms and    *)
(* two usernames at one address.  The clock stands still, so the deletion  *)
(* timers stay pending (Spec runs them), and an evicted socket's           *)
(* 'disconnect' handler runs inside the eviction.                          *)
(***************************************************************************)
NextRooms ==
    \/ \E version \in VersionInputs :
          nextSocketId <= MaxSockets /\ Connect("ipA", version)
    \/ \E s \in SocketIds, roomId \in RoomPair, username \in MemberNames,
          publicKey \in PublicKeyInputs :
          JoinRoom(s, roomId, username, publicKey, "inline")
    \/ \E s \in SocketIds : LeaveRoom(s)
    \/ \E s \in SocketIds : Disconnect(s)

SpecRooms == Init /\ [][NextRooms]_vars

(***************************************************************************)
(* Properties of the relay.                                                *)
(***************************************************************************)
IpCount(counts, ip) == IF ip \in DOMAIN counts THEN counts[ip] ELSE 0
Entries(m) == {m[i] : i \in 1..Len(m)}
Notice(to, text) == [to |-> to, ev |-> "error", data |-> ErrorMsg(text)]
TakenNotices(s) == {Notice(s, "Username already taken."), Notice(s, "Username taken.")}
EvictNotice(s) == Notice(s, "New connection detected. Disconnecting old session.")

\* the 'disconnect' handler of c has run: c is out of the room recorded for
\* it and its address has one connection less
ReleasedBy(c) ==
    /\ c \notin DOMAIN socketToRoom'
    /\ (c \in DOMAIN socketToRoom /\ socketToRoom[c] \in DOMAIN rooms'
           => c \notin DOMAIN rooms'[socketToRoom[c]])
    /\ IpCount(ipConnectionCounts', clientIp[c])
           = IpCount(ipConnectionCounts, clientIp[c]) - 1

(***************************************************************************)
(* SpecFiles: the relay of file-transfer events between connections that   *)
(* come and go.                                                            *)
(***************************************************************************)
FileIds == 1..MaxFileSockets
BinaryData(n) == [kind |-> "plain", file |-> "x.bin", from |-> 0, to |-> n]
RelayChunks ==
    {sliceFile(FileA)[i] : i \in 1..Len(sliceFile(FileA))}
        \cup {BinaryData(MAX_CHUNK_BYTES), BinaryData(MAX_CHUNK_BYTES + 1),
              TextData(MAX_CHUNK_BYTES + 1), NoData}

NextFiles ==
    \/ \E version \in VersionInputs :
          nextSocketId <= MaxFileSockets /\ Connect("ipA", version)
    \/ \E s \in FileIds : Disconnect(s)
    \/ \E s \in FileIds, target \in FileIds,
          metadata \in RelayMetadata \cup {NoMetadata},
          fileMetadata \in RelayMetadata \cup {NoMetadata} :
          RelayFileOffer(s, target, metadata, fileMetadata)
    \/ \E s \in FileIds, target \in FileIds, ev \in FileSignals,
          transferId \in RelayTransferIds : RelayFileSignal(s, ev, target, transferId)
    \/ \E s \in FileIds, target \in FileIds, transferId \in RelayTransferIds,
          chunkId \in 0..2, data \in RelayChunks :
          RelayFileChunk(s, target, transferId, chunkId, data)

SpecFiles == Init /\ [][NextFiles]_vars

(***************************************************************************)
(* SpecBroadcast: a file sent to a room of two peers, and the transfers    *)
(* that creates being accepted, declined and cancelled.                    *)
(***************************************************************************)
BroadcastIds == 1..MaxBroadcast

\* the room as the client has come to list it: both peers online, or the
\* first of them gone while its session key is kept
BroadcastRooms ==
    {<<Peer("p1", "U1", "pk1"), Peer("p2", "U2", "pk2")>>,
     <<[Peer("p1", "U1", "pk1") EXCEPT !.isOnline = FALSE], Peer("p2", "U2", "pk2")>>}

InitBroadcast ==
    /\ InitRelay /\ InitRate /\ InitIdentity
    /\ activeUsers \in BroadcastRooms
    /\ sharedSecretsRef = [id \in {"p1", "p2"} |->
                              deriveSharedSecret(OwnPublicKey,
                                                 IF id = "p1" THEN "pk1" ELSE "pk2")]
    /\ activeChatTarget = ROOM
    /\ keyTasks = {}
    /\ sendTasks = <<>>
    /\ activeTransfers = EmptyMap
    /\ activeTransfersRef = EmptyMap
    /\ transfersSynced = TRUE
    /\ fileChunksRef = EmptyMap
    /\ processedTransferIds = {}
    /\ pendingFileChunks = EmptyMap
    /\ isSendingRef = FALSE
    /\ nextTransferId = 1
    /\ sendLoops = <<>>
    /\ clientTimers = {}
    /\ downloads = <<>>
    /\ completions = EmptyMap
    /\ emitted = <<>>
    /\ shown = <<>>
    /\ unreadCounts = EmptyMap
    /\ recvTasks = <<>>
    /\ online = [u \in {activeUsers[i].username :
                             i \in {j \in 1..Len(activeUsers) : activeUsers[j].isOnline}} |->
                    IF u = "U1" THEN "p1" ELSE "p2"]
    /\ migration = {}
    /\ migratedKey = EmptyMap
    /\ ended = EmptyMap
    /\ dataSent = EmptyMap
    /\ link = <<>>
    /\ session = <<>>
    /\ lastMessage = <<>>

NextBroadcast ==
    \/ \E file \in FileInputs : HandleFileSelect(file)
    \/ \E file \in FileInputs : BroadcastFile(file)
    \* the peers answer one after another: no accept while a loop is suspended
    \/ \E id \in BroadcastIds : sendLoops = <<>> /\ OnFileAccept(id)
    \/ \E k \in 1..MaxLoops : ResumeSendChunks(k)
    \/ \E id \in BroadcastIds : OnFileDecline(id)
    \/ \E id \in BroadcastIds : CancelTransfer(id)
    \/ \E id \in BroadcastIds : OnFileCancel(id)
    \/ \E t \in clientTimers : ClientTimer(t)
    \/ SyncTransfersRef

SpecBroadcast == InitBroadcast /\ [][NextBroadcast]_vars

(***************************************************************************)
(* SpecReceive: the client receiving envelopes from a peer: well-formed    *)
(* ones, ones encrypted under another key, ones without the sender's key   *)
(* and ones with a malformed key, before and after the peer is listed.     *)
(***************************************************************************)
ReceivePeer == Peer("p1", "U1", "pk1")
OtherKey(data) ==
    [data EXCEPT !.payload.encrypted =
        encryptText("hi", deriveSharedSecret("pk9", OwnPublicKey))]
WithKey(data, jwk) == [data EXCEPT !.payload.senderPublicKeyJwkString = jwk]
ReceiveInputs ==
    UNION {{data, OtherKey(data), WithKey(data, ""), WithKey(data, MalformedKey)} :
              data \in {PeerMessage(ReceivePeer, d) : d \in BOOLEAN}}

NextReceive ==
    \/ OnUserJoined(ReceivePeer)
    \/ \E task \in keyTasks : KeyDerived(task)
    \/ \E target \in {"p1", ROOM} : SetActiveChatTarget(target)
    \/ \E data \in ReceiveInputs : OnEncryptedMessage(data)
    \/ \E k \in 1..MaxRecvTasks : MessageKeyDerived(k)
    \/ \E k \in 1..MaxRecvTasks : MessageDecrypted(k)

SpecReceive == Init /\ [][NextReceive]_vars

(***************************************************************************)
(* SpecOrder: two messages sent one after the other, to the room or to the *)
(* peer, the second while the first still awaits crypto.subtle.            *)
(***************************************************************************)
NextOrder ==
    \/ OnUserJoined(ReceivePeer)
    \/ \E task \in keyTasks : KeyDerived(task)
    \/ \E target \in {"p1", ROOM} : SetActiveChatTarget(target)
    \/ \E i \in 1..Len(OrderTexts) : SendInTurn(OrderTexts[i])
    \/ \E k \in 1..MaxSendTasks : AfterExport(k)
    \/ \E k \in 1..MaxSendTasks : SelfHealDerived(k)
    \/ \E k \in 1..MaxSendTasks : EncryptDone(k)

SpecOrder == Init /\ [][NextOrder]_vars

(***************************************************************************)
(* SpecRelayed: one file sent from client p1 to client p2 through the      *)
(* relay.  The two clients are records of the client state (link.p1,       *)
(* link.p2); what a client emits waits in link.wire until the relay's      *)
(* middleware and handler take it, what the relay forwards waits in        *)
(* link.inbox until the addressed client handles it.  Each connection      *)
(* delivers in order.  The relay knows p1 as socket 1 and p2 as socket 2.  *)
(* The clock may pass into the next rate window once.  The clients' timers *)
(* (the release of the send lock, the removal of a finished transfer from  *)
(* the list after two seconds) stay pending: they act after the transfer.  *)
(***************************************************************************)
LinkNames == <<"p1", "p2">>
RelayId(name) == CHOOSE i \in 1..2 : LinkNames[i] = name
LinkFile == [name |-> "big.bin", size |-> (MaxLinkChunks - 1) * CHUNK_SIZE + 1,
             type |-> "application/octet-stream"]
LinkTickSteps == {RATE_LIMIT_WINDOW + 1}

\* the state of a client that has just started
FreshClient ==
    [activeUsers |-> <<>>, sharedSecretsRef |-> EmptyMap, activeChatTarget |-> ROOM,
     keyTasks |-> {}, sendTasks |-> <<>>, activeTransfers |-> EmptyMap,
     activeTransfersRef |-> EmptyMap, transfersSynced |-> TRUE,
     fileChunksRef |-> EmptyMap, processedTransferIds |-> {},
     pendingFileChunks |-> EmptyMap, isSendingRef |-> FALSE, nextTransferId |-> 1,
     sendLoops |-> <<>>, clientTimers |-> {}, downloads |-> <<>>,
     completions |-> EmptyMap, unreadCounts |-> EmptyMap, recvTasks |-> <<>>,
     online |-> EmptyMap, migratedKey |-> EmptyMap, ended |-> EmptyMap,
     dataSent |-> EmptyMap, emitted |-> <<>>, shown |-> <<>>, migration |-> {},
     lastMessage |-> <<>>]

\* both clients connected; p1 lists p2, whom it has opened a direct chat with
InitRelayed ==
    /\ InitRate /\ InitChat
    /\ now = 0
    /\ nextSocketId = 3
    /\ sockets = {1, 2}
    /\ closing = {}
    /\ clientIp = [s \in {1, 2} |-> IF s = 1 THEN "ipA" ELSE "ipB"]
    /\ adapterRooms = [s \in {1, 2} |-> {}]
    /\ rooms = EmptyMap
    /\ socketToRoom = EmptyMap
    /\ allUsers = <<>>
    /\ socketRateLimits = EmptyMap
    /\ ipConnectionCounts = [ip \in {"ipA", "ipB"} |-> 1]
    /\ timers = <<>>
    /\ emptiedAt = EmptyMap
    /\ inRoom = EmptyMap
    /\ sent = <<>>
    /\ out = {}
    /\ link = [p1 |-> [FreshClient EXCEPT !.activeUsers = <<Peer("p2", "U2", "pk2")>>,
                                          !.activeChatTarget = "p2"],
               p2 |-> FreshClient, wire |-> <<>>, inbox |-> <<>>]
    /\ session = <<>>

\* a callback of client `who` starts: the last step's emissions are history
Before(who) == [link[who] EXCEPT !.emitted = <<>>, !.shown = <<>>]
\* the callback has run: what it emitted is on its way to the relay
After(L, who, C) ==
    [L EXCEPT ![who] = C,
              !.wire = @ \o [i \in 1..Len(C.emitted) |->
                                [from |-> RelayId(who), ev |-> C.emitted[i].ev,
                                 data |-> C.emitted[i].data]]]
ClientRan(who, C) ==
    /\ \E D \in {C} : link' = After(link, who, D)
    /\ UNCHANGED <<relayVars, rateVars, chatVars, identityVars, session>>

\* the first element of q that satisfies P, and q without it
First(q, P(_)) == CHOOSE i \in 1..Len(q) : P(q[i]) /\ \A j \in 1..(i - 1) : ~P(q[j])
Without(q, i) == [j \in 1..(Len(q) - 1) |-> IF j < i THEN q[j] ELSE q[j + 1]]

\* the user of p1 picks the file for the open direct chat
LinkSelectFile ==
    /\ link.p1.nextTransferId = 1
    /\ ~link.p1.isSendingRef
    /\ ClientRan("p1", handleFileSelect(Before("p1"), LinkFile))

\* the user of p2 presses Accept
LinkAccept(transferId) ==
    /\ canAccept(link.p2, transferId)
    /\ ClientRan("p2", acceptFileTransfer(Before("p2"), transferId))

\* the effect that copies activeTransfers into the ref runs
LinkSync(who) ==
    /\ ~link[who].transfersSynced
    /\ ClientRan(who, [Before(who) EXCEPT !.activeTransfersRef = link[who].activeTransfers,
                                          !.transfersSynced = TRUE])

LinkResume(who, k) ==
    /\ k \in 1..Len(link[who].sendLoops)
    /\ ClientRan(who, resumeSendChunks(Before(who), k))

\* the listener of the event the relay forwarded
listener(C, e) ==
    CASE e.ev = "file-offer" ->
             fileOffer(C, LinkNames[e.data.senderSocketId],
                       IF e.data.metadata # NoMetadata THEN e.data.metadata
                       ELSE e.data.fileMetadata)
      [] e.ev = "file-accept" -> fileAccept(C, e.data.transferId)
      [] e.ev = "file-chunk" ->
             fileChunk(C, e.data.transferId, e.data.chunkId, e.data.data)
      [] e.ev = "file-complete" -> fileComplete(C, e.data.transferId)

\* client `who` handles the next event the relay sent it
LinkReceive(who) ==
    LET mine(e) == e.to = RelayId(who)
    IN  /\ \E i \in 1..Len(link.inbox) : mine(link.inbox[i])
        /\ LET i == First(link.inbox, mine)
               L == [link EXCEPT !.inbox = Without(@, i)]
           IN  \E D \in {listener(Before(who), link.inbox[i])} : link' = After(L, who, D)
        /\ UNCHANGED <<relayVars, rateVars, chatVars, identityVars, session>>

\* the relay's handler of an event the middleware let through
handler(R, m) ==
    LET targetSocketId == RelayId(m.data.targetSocketId)
    IN  CASE m.ev = "file-offer" ->
                 fileOfferHandler(R, m.from, targetSocketId, m.data.metadata, NoMetadata)
          [] m.ev = "file-chunk" ->
                 fileChunkHandler(R, targetSocketId, m.data.transferId,
                                  m.data.chunkId, m.data.data)
          [] OTHER -> fileSignalHandler(R, m.ev, targetSocketId, m.data.transferId)

\* the one event a file handler forwards, if any
Forwarded(events) == IF events = {} THEN <<>> ELSE <<CHOOSE e \in events : TRUE>>

\* the relay takes the next event of connection s: socket.use, then the handler
LinkRelay(s) ==
    LET mine(m) == m.from = s
    IN  /\ \E i \in 1..Len(link.wire) : mine(link.wire[i])
        /\ LET i == First(link.wire, mine)
               m == link.wire[i]
               r == checkRateLimit(socketRateLimits, s, now)
               R0 == [Relay EXCEPT !.socketRateLimits = r.limits]
               R1 == IF r.ok THEN handler(R0, m) ELSE R0
           IN  /\ Commit(R1)
               /\ link' = [link EXCEPT !.wire = Without(@, i),
                                       !.inbox = @ \o Forwarded(R1.out)]
        /\ UNCHANGED <<now, nextSocketId, clientIp, rateVars, chatVars, identityVars, session>>

LinkSteps ==
    \/ LinkSelectFile
    \/ \E id \in UploadIds : LinkAccept(id)
    \/ \E who \in {"p1", "p2"} : LinkSync(who)
    \/ \E who \in {"p1", "p2"}, k \in 1..MaxLoops : LinkResume(who, k)
    \/ \E who \in {"p1", "p2"} : LinkReceive(who)
    \/ \E s \in {1, 2} : LinkRelay(s)

NextRelayed ==
    \/ LinkSteps
    \/ \E d \in LinkTickSteps : now = 0 /\ RateTick(d)

SpecRelayed == InitRelayed /\ [][NextRelayed]_vars

\* every callback that is ready runs and every event in flight is delivered;
\* nothing makes the clock reach the next rate window before they are
SpecRelayedFair == SpecRelayed /\ WF_vars(LinkSteps)

(***************************************************************************)
(* SpecThreads: direct messages arriving from two connections.  The relay  *)
(* holds connection p1 under the username U1 and connection p9 under U9;   *)
(* an envelope carries the sender's connection id as the relay sets it     *)
(* (senderSocketId: socket.id) and the senderUsername and the payload as   *)
(* the sender supplied them.                                               *)
(***************************************************************************)
ThreadPeers == {Peer("p1", "U1", "pk1"), Peer("p9", "U9", "pk9")}
\* the relay's directory: the connection it identifies as the username
IdentifiedAs(username) ==
    (CHOOSE peer \in ThreadPeers : peer.username = username).socketId

\* 'encrypted-message' as the relay emits it for a send-message of `peer'
\* that names `senderUsername' as its sender
Envelope(peer, senderUsername) ==
    [PeerMessage(peer, TRUE) EXCEPT !.senderUsername = senderUsername]
ThreadInputs ==
    {Envelope(peer, name) : peer \in ThreadPeers, name \in {"U1", "U9"}}

NextThreads ==
    \/ \E peer \in ThreadPeers : OnUserJoined(peer)
    \/ \E task \in keyTasks : KeyDerived(task)
    \/ \E target \in {"p1", ROOM} : SetActiveChatTarget(target)
    \/ \E data \in ThreadInputs : OnEncryptedMessage(data)
    \/ \E k \in 1..MaxRecvTasks : MessageKeyDerived(k)
    \/ \E k \in 1..MaxRecvTasks : MessageDecrypted(k)

SpecThreads == Init /\ [][NextThreads]_vars

(***************************************************************************)
(* SpecRoomSend: the client posting to the room while peers join and       *)
(* leave.  Peers join and leave only while no sendMessage call is in       *)
(* progress.                                                               *)
(***************************************************************************)
NextRoomSend ==
    \/ \E user \in MessagePeers : sendTasks = <<>> /\ OnUserJoined(user)
    \/ \E socketId \in PeerSocketIds : sendTasks = <<>> /\ OnUserLeft(socketId)
    \/ \E task \in keyTasks : KeyDerived(task)
    \/ \E text \in TextInputs : activeChatTarget = ROOM /\ SendMessage(text)
    \/ \E k \in 1..MaxSendTasks : AfterExport(k)
    \/ \E k \in 1..MaxSendTasks : SelfHealDerived(k)
    \/ \E k \in 1..MaxSendTasks : EncryptDone(k)

SpecRoomSend == Init /\ [][NextRoomSend]_vars

(***************************************************************************)
(* SpecSession: one client (username ann) and the relay across a drop of   *)
(* the transport.  The effect that creates the socket registers the        *)
(* 'connect' listener once; the listener keeps the roomId of the render    *)
(* in which the effect ran (session.listenerRoomId).  When the transport    *)
(* drops, socket.io reconnects under a new socket id.                      *)
(***************************************************************************)
NoRoom == <<>>
DirectChat == <<"Direct Chat">>
NoSession ==
    [mounted |-> FALSE, roomId |-> NoRoom, listenerRoomId |-> NoRoom,
     socketId |-> NoSocketId, reconnected |-> FALSE, wire |-> <<>>]
MaxSessionSockets == 3
MaxSessionWire == 2

InitSession ==
    /\ InitRelay /\ InitRate /\ InitChat
    /\ link = <<>>
    /\ session = NoSession

SessionStep(next) ==
    /\ session' = next
    /\ UNCHANGED <<relayVars, rateVars, chatVars, identityVars, link>>

\* the effect with the dependencies [userIdentity, ownKeyPair] runs: io(...)
\* and socket.on('connect', ...) with the roomId of this render
SessionMount ==
    /\ ~session.mounted
    /\ SessionStep([session EXCEPT !.mounted = TRUE, !.listenerRoomId = session.roomId])

\* the transport connects, at first or again after a drop
SessionTransport ==
    /\ session.mounted
    /\ sockets = {}
    /\ nextSocketId <= MaxSessionSockets
    /\ \E version \in VersionInputs : Connect("ipA", version)

\* the 'connect' listener: register-user, and join-room "if we have state"
onConnect(S, s) ==
    [S EXCEPT !.socketId = <<s>>,
              !.reconnected = (S.socketId # NoSocketId),
              !.wire = <<[ev |-> "register-user", username |-> Ann, publicKey |-> "pkA"]>>
                       \o (IF S.listenerRoomId # NoRoom /\ S.listenerRoomId # DirectChat
                           THEN <<[ev |-> "join-room", roomId |-> S.listenerRoomId,
                                   username |-> Ann, publicKey |-> "pkA"]>>
                           ELSE <<>>)]

SessionOnConnect ==
    \E s \in sockets :
        /\ session.socketId # <<s>>
        /\ SessionStep(onConnect(session, s))

Connected == session.socketId # NoSocketId /\ session.socketId[1] \in sockets

\* joinRoom(newRoomId), called from the room form of the sidebar
SessionJoinRoom(newRoomId) ==
    /\ Connected
    /\ session.roomId # newRoomId
    /\ Len(session.wire) < MaxSessionWire
    /\ SessionStep([session EXCEPT
           !.roomId = newRoomId,
           !.wire = Append(@, [ev |-> "join-room", roomId |-> newRoomId,
                               username |-> Ann, publicKey |-> "pkA"])])

\* the relay handles the next event of the client's connection
SessionRelay ==
    /\ Connected
    /\ session.wire # <<>>
    /\ LET m == Head(session.wire)
           s == session.socketId[1]
       IN  Commit(IF m.ev = "register-user"
                  THEN registerUserHandler(Relay, s, m.username, m.publicKey, "inline")
                  ELSE joinRoomHandler(Relay, s, m.roomId, m.username, m.publicKey,
                                       "inline"))
    /\ session' = [session EXCEPT !.wire = Tail(@)]
    /\ UNCHANGED <<now, nextSocketId, clientIp, rateVars, chatVars, identityVars, link>>

\* the transport drops with nothing in flight (socket.io will reconnect)
SessionDrop ==
    /\ Connected
    /\ nextSocketId <= MaxSessionSockets
    /\ session.wire = <<>>
    /\ Disconnect(session.socketId[1])

\* what happens without the user: socket.io connects, the listener runs, the
\* relay handles what it is sent
SessionRuns ==
    \/ SessionMount
    \/ SessionTransport
    \/ SessionOnConnect
    \/ SessionRelay

NextSession ==
    \/ SessionRuns
    \/ \E newRoomId \in RoomPair : SessionJoinRoom(newRoomId)
    \/ SessionDrop

SpecSession == InitSession /\ [][NextSession]_vars
SpecSessionFair == SpecSession /\ WF_vars(SessionRuns)

\* C3: of the events one connection sends within one rate window, exactly the
\* first MAX_REQUESTS_PER_WINDOW (10) reach the handler; a later event of the
\* window is dropped: nothing is queued, nothing is sent back, the connection
\* stays open and no relay state other than the counter changes.
C3_RateLimitFirstN ==
    /\ [](\A s \in DOMAIN received :
             handled[s] = Min(received[s], MAX_REQUESTS_PER_WINDOW))
    /\ [][\A s \in sockets : GetStats(s) =>
             /\ (out' # {}) <=> (received'[s] <= MAX_REQUESTS_PER_WINDOW)
             /\ sockets' = sockets
             /\ out' = {} => /\ handled'[s] = MAX_REQUESTS_PER_WINDOW
                             /\ timers' = timers
                             /\ closing' = closing]_vars

C3_Witness ==
    \E s \in sockets :
        /\ s \in DOMAIN received
        /\ received[s] > MAX_REQUESTS_PER_WINDOW
        /\ handled[s] = MAX_REQUESTS_PER_WINDOW
        /\ out = {}

\* a registration of username u by socket s meets an entry held by another
\* socket, at a different / at the same origin address
HeldElsewhere(s, u) ==
    /\ isValidUsername(u)
    /\ UsersHas(allUsers, u)
    /\ UsersGet(allUsers, u).socketId # s
OtherOrigin(s, u) == HeldElsewhere(s, u) /\ UsersGet(allUsers, u).ip # clientIp[s]
SameOrigin(s, u) == HeldElsewhere(s, u) /\ UsersGet(allUsers, u).ip = clientIp[s]

Registers(s, u) ==
    \/ \E k \in PublicKeyInputs, o \in EvictionOrders : RegisterUser(s, u, k, o)
    \/ \E r \in RoomIdInputs, k \in PublicKeyInputs, o \in EvictionOrders :
          isValidRoomId(r) /\ JoinRoom(s, r, u, k, o)

\* C4: a registration (register-user or join-room) for a username held by a
\* connection at a different origin address is answered with a username-taken
\* notice, the registering connection is disconnected, and the directory
\* entry of the username is unchanged.
C4_OtherOriginRejected ==
    [][\A s \in sockets, u \in UsernameInputs :
          OtherOrigin(s, u) /\ Registers(s, u) =>
              /\ out' \cap TakenNotices(s) # {}
              /\ s \notin sockets'
              /\ UsersHas(allUsers', u)
              /\ UsersGet(allUsers', u) = UsersGet(allUsers, u)]_vars

C4_Witness ==
    \E s \in SocketIds, u \in UsernameInputs :
        /\ out \cap TakenNotices(s) # {}
        /\ s \notin sockets
        /\ UsersHas(allUsers, u)
        /\ UsersGet(allUsers, u).socketId \in sockets \ {s}
        /\ UsersGet(allUsers, u).ip # clientIp[s]

\* C5: a registration for a username held by another connected socket c1 at
\* the same origin address sends c1 a notice, disconnects c1 and leaves the
\* directory mapping the username to the registering socket c2; the
\* 'disconnect' handler of c1, whether it runs inside the registration or
\* later, takes c1 out of its room and of the per-origin count and removes
\* no directory entry of another socket; the per-origin count equals the
\* number of sockets of the origin whose 'disconnect' handler has not run.
C5_SameOriginReclaim ==
    /\ [][\A c2 \in sockets, u \in UsernameInputs :
             SameOrigin(c2, u) /\ UsersGet(allUsers, u).socketId \in sockets
                 /\ Registers(c2, u) =>
                 LET c1 == UsersGet(allUsers, u).socketId
                 IN  /\ EvictNotice(c1) \in out'
                     /\ c1 \notin sockets'
                     /\ c2 \in sockets'
                     /\ UsersHas(allUsers', u)
                     /\ UsersGet(allUsers', u).socketId = c2
                     /\ c1 \in closing' \/ ReleasedBy(c1)]_vars
    /\ [][\A c1 \in sockets \cup closing :
             c1 \notin sockets' \cup closing' /\ Disconnect(c1) =>
             /\ ReleasedBy(c1)
             /\ \A e \in Entries(allUsers) : e.socketId # c1 => e \in Entries(allUsers')]_vars
    /\ [](\A ip \in Ips : IpCount(ipConnectionCounts, ip)
             = Cardinality({c \in sockets \cup closing : clientIp[c] = ip}))

C5_Witness ==
    \E c1 \in SocketIds, c2 \in sockets, u \in UsernameInputs :
        /\ c1 # c2
        /\ EvictNotice(c1) \in out
        /\ c1 \notin sockets \cup closing
        /\ clientIp[c1] = clientIp[c2]
        /\ UsersHas(allUsers, u)
        /\ UsersGet(allUsers, u).socketId = c2

\* C6: when the deletion timer of a room runs and a member is present, the
\* room is kept with its members; when it runs and the member set is empty,
\* the room is deleted; and an empty room never exists for longer than the
\* grace period (10 s) after its member set became empty.
C6_GraceOutcome ==
    /\ [][RoomTimer =>
             LET r == timers[1].roomId
             IN  /\ r \in DOMAIN rooms /\ DOMAIN rooms[r] # {} => rooms' = rooms
                 /\ r \in DOMAIN rooms /\ DOMAIN rooms[r] = {} => r \notin DOMAIN rooms']_vars
    /\ [](\A r \in DOMAIN rooms : DOMAIN rooms[r] = {} =>
             /\ r \in DOMAIN emptiedAt
             /\ now <= emptiedAt[r] + GRACE_PERIOD)

\* the room emptied, was re-joined, and its timer ran with the member present
C6_Witness ==
    \E r \in DOMAIN rooms :
        /\ DOMAIN rooms[r] # {}
        /\ r \in DOMAIN emptiedAt
        /\ now >= emptiedAt[r] + GRACE_PERIOD
        /\ timers = <<>>

\* C7: a room is deleted only when its member set has been empty for a full
\* grace period since it last became empty.
C7_DeletedOnlyAfterFullGrace ==
    [][\A r \in DOMAIN rooms : r \notin DOMAIN rooms' =>
          /\ r \in DOMAIN emptiedAt
          /\ now >= emptiedAt[r] + GRACE_PERIOD]_vars


\* the connections whose room is r: they joined r last and have neither left
\* nor been disconnected since
Members(joined, r) == {m \in DOMAIN joined : joined[m] = r}
JoinSucceeds(c, r, u) ==
    /\ isValidRoomId(r)
    /\ isValidUsername(u)
    /\ ~OtherOrigin(c, u)

\* C16: on every successful join-room by connection c into room r, c receives
\* a room-users list containing exactly the other current members of r, and
\* every other current member of r receives a user-joined event describing c.
C16_JoinAnnounced ==
    [][\A c \in sockets, r \in RoomPair, u \in MemberNames, k \in PublicKeyInputs :
          JoinRoom(c, r, u, k, "inline") /\ JoinSucceeds(c, r, u) =>
              LET others == Members(inRoom', r) \ {c}
                  user == [socketId |-> c, username |-> u, publicKey |-> k,
                           ip |-> clientIp[c]]
              IN  /\ \E e \in out' :
                         /\ e.to = c
                         /\ e.ev = "room-users"
                         /\ {x.socketId : x \in e.data.users} = others
                  /\ \A m \in others :
                         [to |-> m, ev |-> "user-joined", data |-> [user |-> user]] \in out']_vars


UserLeft(to, c) == [to |-> to, ev |-> "user-left", data |-> [socketId |-> c]]

\* C17: whenever a member connection leaves its room (leave-room) or is
\* disconnected (by its transport or by an eviction), every other member of
\* that room receives a user-left event carrying the identifier of the
\* departing connection.
C17_LeaveAnnounced ==
    [][\A c \in DOMAIN inRoom :
          c \notin DOMAIN inRoom' =>
              \A m \in Members(inRoom, inRoom[c]) \ {c} : UserLeft(m, c) \in out']_vars

\* a member was disconnected and a connection still in the room was told
C17_Witness ==
    \E e \in out :
        /\ e.ev = "user-left"
        /\ e.data.socketId \notin sockets
        /\ e.to \in DOMAIN inRoom
        /\ e.to \in DOMAIN rooms[inRoom[e.to]]


(***************************************************************************)
(* Admission (SpecAdmit).                                                  *)
(***************************************************************************)
\* the order of declared versions "major.minor.patch"
VersionLess(v, w) ==
    /\ v # NoVersion
    /\ \E i \in 1..3 : v[i] < w[i] /\ \A j \in 1..(i - 1) : v[j] = w[j]
ForceUpdate(s) == [to |-> s, ev |-> "force-update", data |-> [minVersion |-> MIN_SUPPORTED_VERSION]]
SoftUpdate(s) == [to |-> s, ev |-> "soft-update", data |-> [latestVersion |-> LATEST_VERSION]]
Live == sockets \cup closing
LiveFrom(ip) == {c \in Live : clientIp[c] = ip}
AllAddresses == AdmitIps \cup {AddressNames[i] : i \in 1..Len(AddressNames)}
CapReached(ip) ==
    \/ Cardinality(Live) >= MAX_GLOBAL_CONNECTIONS
    \/ Cardinality(LiveFrom(ip)) >= MAX_CONNECTIONS_PER_IP
AdmissionUntouched ==
    UNCHANGED <<sockets, closing, clientIp, adapterRooms, rooms, socketToRoom, allUsers,
                socketRateLimits, ipConnectionCounts, timers>>
Outdated(v) == VersionLess(v, MIN_SUPPORTED_VERSION)
Behind(v) == v # NoVersion /\ ~Outdated(v) /\ VersionLess(v, LATEST_VERSION)

\* a connection declaring an outdated version gets force-update and nothing
\* else, is not connected, and no relay state changes
OutdatedRefused ==
    \A ip \in AdmitIps, v \in AdmitVersions :
        Connect(ip, v) /\ Outdated(v) =>
            /\ out' = {ForceUpdate(nextSocketId)}
            /\ nextSocketId \notin sockets'
            /\ AdmissionUntouched

\* C18 (as stated): a connection whose declared version is below the minimum
\* receives force-update and is disconnected before any admission counter,
\* directory or room state is touched and before any of its events is
\* processed; a connection whose version is at least the minimum but below
\* the latest is admitted and receives a soft-update notice.
C18_VersionGate ==
    [][/\ OutdatedRefused
       /\ \A ip \in AdmitIps, v \in AdmitVersions :
              Connect(ip, v) /\ Behind(v) =>
                  /\ SoftUpdate(nextSocketId) \in out'
                  /\ nextSocketId \in sockets']_vars

\* C18 (amended): as above for a version below the minimum; a connection
\* whose version is at least the minimum but below the latest receives a
\* soft-update notice and is admitted unless the global or the per-address
\* cap is reached, in which case it also receives the rejection notice and
\* is disconnected.
C18_VersionGateCapped ==
    [][/\ OutdatedRefused
       /\ \A ip \in AdmitIps, v \in AdmitVersions :
              Connect(ip, v) /\ Behind(v) =>
                  /\ SoftUpdate(nextSocketId) \in out'
                  /\ nextSocketId \in sockets' <=> ~CapReached(ip)
                  /\ CapReached(ip) =>
                         \E e \in out' : e.to = nextSocketId /\ e.ev = "error"]_vars

\* a connection behind the latest version was told so and then refused for
\* the per-address cap
C18_Witness ==
    \E s \in AdmitIds :
        /\ SoftUpdate(s) \in out
        /\ Notice(s, "Too many connections from your IP.") \in out
        /\ s \notin sockets


\* C19: in every reachable state the admitted connections of one address
\* number at most the per-address cap (5) and all of them at most the global
\* cap (100); a connection arriving when a cap is reached gets a rejection
\* notice and is disconnected without being counted; and every run of the
\* 'disconnect' handler of an admitted connection (closed by its transport,
\* evicted by a reclaim, or refused for a name collision) releases exactly
\* one slot of its address and none of another address.
C19_AdmissionCaps ==
    /\ [](/\ Cardinality(Live) <= MAX_GLOBAL_CONNECTIONS
          /\ \A ip \in AllAddresses : Cardinality(LiveFrom(ip)) <= MAX_CONNECTIONS_PER_IP)
    /\ [][\A ip \in AdmitIps, v \in AdmitVersions :
             Connect(ip, v) /\ ~Outdated(v) /\ CapReached(ip) =>
                 /\ \E e \in out' : e.to = nextSocketId /\ e.ev = "error"
                 /\ nextSocketId \notin sockets'
                 /\ ipConnectionCounts' = ipConnectionCounts]_vars
    /\ [][\A c \in Live :
             c \notin sockets' \cup closing' =>
                 \A ip \in AllAddresses :
                     IpCount(ipConnectionCounts', ip)
                         = IpCount(ipConnectionCounts, ip)
                               - (IF ip = clientIp[c] THEN 1 ELSE 0)]_vars

\* the relay is full and has just refused a connection for it
C19_Witness ==
    \E s \in AdmitIds :
        /\ Notice(s, "Server is full. Please try again later.") \in out
        /\ s \notin Live
        /\ Cardinality(Live) = MAX_GLOBAL_CONNECTIONS


(***************************************************************************)
(* Message relay (SpecDeliver).                                            *)
(***************************************************************************)
Resolves(u) == u # NoName /\ UsersHas(allUsers, u)
EncryptedMessage(to, from) ==
    [to |-> to, ev |-> "encrypted-message",
     data |-> [senderSocketId |-> from, senderUsername |-> "sender",
               payload |-> "ciphertext"]]

UsernameOf(socketId) == (CHOOSE peer \in MigratePeers : peer.socketId = socketId).username

\* where the relay sends the 'encrypted-message' of a 'send-message' event:
\* to the connection registered under the target username when there is
\* one, else to the target socket id
RelayTarget(directory, targetSocketId, targetUsername) ==
    IF targetUsername # Undefined /\ targetUsername \in DOMAIN directory
    THEN directory[targetUsername]
    ELSE targetSocketId

\* the direct messages the client emitted in the last step
DirectSent(events) ==
    {events[i].data : i \in {j \in 1..Len(events) :
                                /\ events[j].ev = "send-message"
                                /\ events[j].data.payload.isDirect}}

\* C11: a direct message the client emits to a peer it has learned to be
\* online (by 'user-joined' or 'room-users', and not left since) is
\* addressed so that the relay sends it to the connection learned last
C11_NoStaleAddress ==
    [][\A data \in DirectSent(emitted') :
          LET P == UsernameOf(data.targetSocketId)
          IN  P \in DOMAIN online' =>
                  RelayTarget(online', data.targetSocketId, data.targetUsername)
                      = online'[P]]_vars

\* C12: a direct message to a connection that took over the cached key of
\* an earlier connection of the same user is encrypted under that key
C12_RekeyedNotRederived ==
    [][\A data \in DirectSent(emitted') :
          data.targetSocketId \in DOMAIN migratedKey' =>
              data.payload.encrypted.key = migratedKey'[data.targetSocketId]]_vars

\* C13: when a listed user is learned under a new socket id, the unread
\* count pending under the old id is gone from the old id and included in
\* the count of the new id
C13_UnreadFollows ==
    [][\A m \in migration' :
          Count(unreadCounts, m.from) > 0 =>
              /\ m.from \notin DOMAIN unreadCounts'
              /\ Count(unreadCounts', m.to) >= unreadCounts[m.from]]_vars

(***************************************************************************)
(* Identity keys (SpecIdentity)                                            *)
(***************************************************************************)
\* the keys the mounted application of tab t holds
Held(t) == {tabs[t].ownKeyPair.publicKey, tabs[t].ownKeyPair.privateKey} \ {NoKey}

\* C14: when initIdentityAndKeys runs twice in succession on the same
\* IndexedDB store (the second run starts after the first has finished and
\* neither overlaps another run), the second run sets the key pair the
\* first run set and generates no key
C14_IdempotentIdentity ==
    lastRun.second =>
        /\ lastRun.keys = lastRun.first
        /\ lastRun.keys # NoKeyPair
        /\ ~lastRun.generated

\* C14 witness: a first run has generated and stored keys, and a second run
\* in succession has finished with them in a tab that still holds them
C14_Witness ==
    /\ lastRun.second /\ ~lastRun.generated
    /\ lastRun.first.publicKey # NoKey /\ lastRun.first.privateKey # NoKey
    /\ \E t \in 1..MaxTabs :
          tabs[t].open /\ tabs[t].pc = "done" /\ tabs[t].ownKeyPair = lastRun.first

\* C15: once the last open tab has been closed, no tab opened afterwards
\* holds a key that the closed tab held
C15_ClosingDestroysKeys ==
    \A t \in 1..MaxTabs : tabs[t].open => Held(t) \cap destroyed = {}

(***************************************************************************)
(* Text messages (SpecMessage).                                            *)
(***************************************************************************)
\* the tasks a step of sendMessage has just brought to their encryption:
\* such a step removes one task and appends the tasks it creates
StartedEncrypting ==
    {sendTasks'[i] : i \in {j \in Len(sendTasks)..Len(sendTasks') :
                               sendTasks'[j].pc = "encrypt"}}
SendMessageEvent(task) ==
    [ev |-> "send-message",
     data |-> [targetSocketId |-> task.targetSocketId,
               targetUsername |-> task.targetUsername,
               payload |-> [senderPublicKeyJwkString |-> OwnPublicKey,
                            encrypted |-> [kind |-> "cipher", key |-> task.key,
                                           text |-> task.text],
                            isDirect |-> task.isDirect],
               senderUsername |-> OwnUsername]]

\* C2: every send-message event the client emits carries the text encrypted
\* (never the plain text) under the session key that the cache held for the
\* event's recipient when the client encrypted it; a recipient for which no key
\* is cached and none can be derived gets no event from that send.
C2_EncryptedUnderCachedKey ==
    /\ [](\A i \in 1..Len(emitted) :
             emitted[i].ev = "send-message" =>
                 /\ emitted[i].data.payload.encrypted.kind = "cipher"
                 /\ emitted[i].data.payload.encrypted.key # {})
    /\ [][\A k \in 1..Len(sendTasks) :
             /\ AfterExport(k) \/ SelfHealDerived(k) =>
                    /\ emitted' = <<>>
                    /\ \A t \in StartedEncrypting :
                           /\ t.targetSocketId \in DOMAIN sharedSecretsRef'
                           /\ t.key = sharedSecretsRef'[t.targetSocketId]
             /\ AfterExport(k) /\ sendTasks[k].isDirect
                  /\ sendTasks[k].targetSocketId \notin DOMAIN sharedSecretsRef =>
                    sendTasks' = RemoveAt(sendTasks, k)
             /\ SelfHealDerived(k) /\ ~importPublicKeyJwk(sendTasks[k].publicKey) =>
                    sendTasks' = RemoveAt(sendTasks, k)
             /\ EncryptDone(k) => emitted' = <<SendMessageEvent(sendTasks[k])>>]_vars
    /\ [][(\E i \in 1..Len(emitted') : emitted'[i].ev = "send-message") =>
             \E k \in 1..Len(sendTasks) : EncryptDone(k)]_vars

\* a group message went out to the peer whose key is cached while the peer
\* whose key cannot be derived got nothing
C2_Witness ==
    /\ Len(emitted) = 1
    /\ emitted[1].ev = "send-message"
    /\ ~emitted[1].data.payload.isDirect
    /\ emitted[1].data.payload.encrypted.key = sharedSecretsRef[emitted[1].data.targetSocketId]
    /\ \E i \in 1..Len(activeUsers) : activeUsers[i].socketId \notin DOMAIN sharedSecretsRef
    /\ sendTasks = <<>>

(***************************************************************************)
(* File transfer (SpecUpload, SpecDownload).                               *)
(***************************************************************************)
\* C1: every file-chunk event the client emits carries chunk data that is a
\* ciphertext under the session key shared with the receiving peer, never the
\* plain bytes of the file.
C1_FileChunksEncrypted ==
    \A i \in 1..Len(emitted) :
        emitted[i].ev = "file-chunk" =>
            /\ emitted[i].data.data.kind = "cipher"
            /\ emitted[i].data.targetSocketId \in DOMAIN sharedSecretsRef
            /\ emitted[i].data.data.key = sharedSecretsRef[emitted[i].data.targetSocketId]

Saved(transferId) == {i \in 1..Len(downloads) : downloads[i].transferId = transferId}

\* C8: for every transferId, however many file-complete events arrive for it,
\* at most one file is assembled and handed to the browser; only a
\* file-complete event saves a file, and a file-complete event for a transferId
\* already finalized changes nothing (no file, no message, no timer, no change
\* of the transfers or of the stored chunks).
C8_CompleteIdempotent ==
    /\ [](\A id \in DownloadIds : Cardinality(Saved(id)) <= 1)
    /\ [][\A id \in DownloadIds :
             OnFileComplete(id) /\ id \in processedTransferIds =>
                 /\ shown' = <<>> /\ emitted' = <<>>
                 /\ UNCHANGED <<downloads, activeTransfers, activeTransfersRef,
                                transfersSynced, fileChunksRef, processedTransferIds,
                                clientTimers>>]_vars
    /\ [][downloads' # downloads =>
             \E id \in DownloadIds :
                 /\ OnFileComplete(id)
                 /\ id \notin processedTransferIds
                 /\ id \in processedTransferIds']_vars

\* a second file-complete has arrived for a transfer that was saved once
C8_Witness ==
    \E id \in DownloadIds :
        /\ Completions(id) >= 2
        /\ Cardinality(Saved(id)) = 1
        /\ id \in processedTransferIds

\* the chunk indices stored for a transfer, in the order of their arrival
ArrivalOrder(transferId) ==
    [i \in 1..Len(fileChunksRef[transferId]) |-> fileChunksRef[transferId][i].k]
HasAllChunks(transferId, n) ==
    /\ transferId \in DOMAIN fileChunksRef
    /\ \A i \in 0..(n - 1) : MapHas(fileChunksRef[transferId], i)
\* what delivery in index order stores for a file, and the Blob made of it
InOrder(file) == [i \in 1..Len(sliceFile(file)) |-> [k |-> i - 1, v |-> sliceFile(file)[i]]]

\* C9: once all n chunk indices of a transfer have arrived, in whatever order
\* and however often, reassembly gives the chunks 0..n-1 in index order, the
\* same Blob as delivery in index order gives; the file saved at completion is
\* that Blob.
C9_ReassemblyInIndexOrder ==
    /\ [](\A id \in DownloadIds, file \in FileInputs :
             LET n == Len(sliceFile(file))
             IN  HasAllChunks(id, n) =>
                     /\ reassembleFile(fileChunksRef[id], n, file.type).parts
                            = [i \in 1..n |-> MapGet(fileChunksRef[id], i - 1)]
                     /\ reassembleFile(fileChunksRef[id], n, file.type)
                            = reassembleFile(InOrder(file), n, file.type))
    /\ [][\A id \in DownloadIds :
             /\ OnFileComplete(id)
             /\ downloads' # downloads
             /\ HasAllChunks(id, activeTransfersRef[id].chunksTotal)
             => downloads'[Len(downloads')].blob.parts
                    = [i \in 1..activeTransfersRef[id].chunksTotal |->
                          MapGet(fileChunksRef[id], i - 1)]]_vars

\* the chunks arrived in the order 2, 0, 1 and the saved file is the file
C9_Witness ==
    \E id \in DownloadIds :
        /\ id \in DOMAIN fileChunksRef
        /\ ArrivalOrder(id) = <<2, 0, 1>>
        /\ Saved(id) # {}
        /\ \A i \in Saved(id) : downloads[i].blob.parts = sliceFile(FileA)

\* the download a file-complete event is about lacks a chunk index
MissingChunk(id) ==
    /\ id \notin processedTransferIds
    /\ id \in DOMAIN activeTransfersRef
    /\ ~activeTransfersRef[id].isUpload
    /\ activeTransfersRef[id].status # "completed"
    /\ ~HasAllChunks(id, activeTransfersRef[id].chunksTotal)
Shows(messages, type) == \E i \in 1..Len(messages) : messages[i].type = type

\* C10: when file-complete arrives for a download of which at least one chunk
\* index is missing, the user is shown an error, no file is handed to the
\* browser and no "File received" message is shown.
C10_MissingChunkFails ==
    [][\A id \in DownloadIds :
          OnFileComplete(id) /\ MissingChunk(id) =>
              /\ downloads' = downloads
              /\ Shows(shown', "ERROR")
              /\ ~Shows(shown', "WEBRTC_STATUS")]_vars
\* C28: a register-user with an invalid username, and a join-room with a
\* malformed room id or an invalid username, is answered with an error notice
\* to the calling connection, changes neither the directory nor the rooms nor
\* what any other connection is sent, and leaves the calling connection open.
Rejected(s) ==
    /\ \E e \in out' : e.to = s /\ e.ev = "error"
    /\ \A e \in out' : e.to = s
    /\ UNCHANGED <<allUsers, rooms, socketToRoom, adapterRooms, sockets, closing>>

C28_InvalidRejectedWithNotice ==
    [][\A s \in sockets, username \in UsernameInputs, roomId \in RoomIdInputs :
          /\ (~isValidUsername(username)
                 /\ \E publicKey \in PublicKeyInputs, order \in EvictionOrders :
                        RegisterUser(s, username, publicKey, order))
              => Rejected(s)
          /\ ((~isValidRoomId(roomId) \/ ~isValidUsername(username))
                 /\ \E publicKey \in PublicKeyInputs, order \in EvictionOrders :
                        JoinRoom(s, roomId, username, publicKey, order))
              => Rejected(s)]_vars

\* the file event the relay handled in this step, and the relay state it
\* may not touch
FileEventHandled(ev) == sent' # <<>> /\ sent'[1].ev = ev
RelayStateKept ==
    UNCHANGED <<sockets, closing, adapterRooms, rooms, socketToRoom, allUsers,
                socketRateLimits, ipConnectionCounts, timers>>
SizeOf(data) ==
    IF data.kind = "plain" THEN byteLength(data)
    ELSE IF data.kind = "string" THEN data.length
    ELSE 0

\* C21: the relay forwards a file-chunk exactly when its data is at most
\* MAX_CHUNK_BYTES (66000) long; a longer chunk is dropped, nothing is
\* forwarded and no relay state changes.
C21_ForwardedIffWithinCeiling ==
    [][FileEventHandled("file-chunk") /\ sent'[1].targetSocketId \in sockets =>
          /\ (out' # {}) <=> (SizeOf(sent'[1].data) <= MAX_CHUNK_BYTES)
          /\ RelayStateKept]_vars

\* the part of C21 about the client: every chunk sliceFile produces is within
\* the relay's ceiling and is forwarded
C21_ClientChunksForwarded ==
    [][FileEventHandled("file-chunk") /\ sent'[1].targetSocketId \in sockets
          /\ (\E i \in 1..Len(sliceFile(FileA)) : sent'[1].data = sliceFile(FileA)[i]) =>
          /\ byteLength(sent'[1].data) <= CHUNK_SIZE
          /\ CHUNK_SIZE <= MAX_CHUNK_BYTES
          /\ out' = {[to |-> sent'[1].targetSocketId, ev |-> "file-chunk",
                      data |-> [transferId |-> sent'[1].transferId,
                                chunkId |-> sent'[1].chunkId,
                                data |-> sent'[1].data]]}]_vars

\* what the relay forwards for the file event e it accepted
FinalMetadata(e) == IF e.metadata # NoMetadata THEN e.metadata ELSE e.fileMetadata
AcceptedByRelay(e) ==
    IF e.ev = "file-offer" THEN FinalMetadata(e) # NoMetadata
    ELSE IF e.ev = "file-chunk" THEN ~oversized(e.data)
    ELSE TRUE
ForwardedData(e) ==
    IF e.ev = "file-offer"
    THEN [senderSocketId |-> e.from, metadata |-> FinalMetadata(e),
          fileMetadata |-> FinalMetadata(e)]
    ELSE IF e.ev = "file-chunk"
    THEN [transferId |-> e.transferId, chunkId |-> e.chunkId, data |-> e.data]
    ELSE [transferId |-> e.transferId]

Finalized(id) ==
    /\ Len(downloads') = Len(downloads) + 1
    /\ downloads'[Len(downloads')].transferId = id
AcceptedDownload(id) ==
    /\ id \in DOMAIN activeTransfers
    /\ ~activeTransfers[id].isUpload
    /\ activeTransfers[id].status = "transferring"

C22_FinalizedOnlyIfAccepted ==
    [][\A id \in DownloadIds : Finalized(id) => AcceptedDownload(id)]_vars

\* the client emits chunk data or the completion of transfer id in this step
SendsData(id) ==
    \E i \in 1..Len(emitted') :
        /\ emitted'[i].ev \in {"file-chunk", "file-complete"}
        /\ emitted'[i].data.transferId = id
Was(id, how) == id \in DOMAIN ended /\ ended[id].how = how

\* C23: the sender emits file-chunk and file-complete for a transfer only in
\* the 'file-accept' handler of that transfer or in the sendChunks call that
\* handler started; and once a file-decline was received for the transfer
\* while it was pending, nothing is emitted for it any more, even if a
\* file-accept arrives afterwards.
C23_NothingSentUnlessAccepted ==
    [][\A id \in UploadIds :
          SendsData(id) =>
              /\ OnFileAccept(id) \/ \E k \in 1..Len(sendLoops) : sendLoops[k].transferId = id
              /\ ~Was(id, "declined")]_vars

\* the peers marked online, and the transfers this step created for peer p
OnlinePeers ==
    {activeUsers[i].socketId : i \in {j \in 1..Len(activeUsers) :
          activeUsers[j].isOnline /\ activeUsers[j].socketId # OwnSocketId}}
CreatedFor(p) ==
    {id \in (DOMAIN activeTransfers') \ (DOMAIN activeTransfers) :
        activeTransfers'[id].peerSocketId = p}
\* the file is sent from the room view, or through the context with 'ROOM'
BroadcastsToRoom ==
    /\ ~isSendingRef
    /\ \E file \in FileInputs :
          \/ activeChatTarget = ROOM /\ HandleFileSelect(file)
          \/ BroadcastFile(file)
EndsTransfer(id) == OnFileDecline(id) \/ CancelTransfer(id) \/ OnFileCancel(id)
KeptAsItWas(id) ==
    /\ id \in DOMAIN activeTransfers =>
           id \in DOMAIN activeTransfers' /\ activeTransfers'[id] = activeTransfers[id]
    /\ id \in DOMAIN pendingFileChunks =>
           id \in DOMAIN pendingFileChunks'
               /\ pendingFileChunks'[id] = pendingFileChunks[id]

\* C24: a file broadcast to the room creates exactly one transfer per peer
\* marked online (and none for anybody else), each under its own transferId;
\* and a decline or a cancellation of one transfer leaves status, progress and
\* pending chunks of every other transfer as they were.
C24_OneTransferPerOnlinePeer ==
    [][/\ BroadcastsToRoom =>
              /\ \A p \in OnlinePeers : Cardinality(CreatedFor(p)) = 1
              /\ \A p \in PeerSocketIds \ OnlinePeers : CreatedFor(p) = {}
       /\ \A id \in BroadcastIds :
              EndsTransfer(id) => \A other \in BroadcastIds \ {id} : KeptAsItWas(other)]_vars

\* C25: once an upload has been cancelled (by the user, or by a file-cancel
\* from the receiver), the sender emits no file-chunk and no file-complete
\* for it any more, wherever in the sending loop the cancellation landed.
C25_NothingSentAfterCancel ==
    [][\A id \in UploadIds : Was(id, "cancelled") => ~SendsData(id)]_vars

\* C26: once a download has been cancelled (by the user, or by a file-cancel
\* from the sender), the receiver holds no chunk buffer for its transferId:
\* the buffer is released by the cancellation and chunks that arrive
\* afterwards are not stored.
C26_CancelReleasesBuffer ==
    \A id \in DownloadIds : Was(id, "cancelled") => id \notin DOMAIN fileChunksRef

\* no secret was resolved for the envelope, or the secret is not the key the
\* envelope was encrypted under
Undecryptable(task) == task.payload.encrypted.key # task.secret

\* C27: when the decryption of an envelope fails, or no session key can be
\* resolved or derived for it, the envelope is discarded: no message is
\* added, no unread counter and no listed user changes, and the envelopes
\* still in progress are left as they are.
C27_FailedEnvelopeDiscarded ==
    [][lastMessage' # <<>> /\ Undecryptable(lastMessage'[1].task) =>
          /\ lastMessage'[1].added = <<>>
          /\ UNCHANGED <<unreadCounts, activeUsers, activeChatTarget>>
          /\ \A k \in 1..Len(recvTasks) :
                recvTasks[k].payload # lastMessage'[1].task.payload =>
                    \E j \in 1..Len(recvTasks') : recvTasks'[j] = recvTasks[k]]_vars

C27_Witness ==
    /\ lastMessage # <<>>
    /\ lastMessage[1].task.pc = "decrypt"
    /\ Undecryptable(lastMessage[1].task)
    /\ lastMessage[1].added = <<>>
    /\ lastMessage[1].task.secret = deriveSharedSecret(OwnPublicKey, "pk1")
    /\ FindUser(activeUsers, "p1")
    /\ recvTasks = <<>>

\* the client emits the message `text' to peer p in this step
SendsText(p, text) ==
    \E i \in 1..Len(emitted') :
        /\ emitted'[i].ev = "send-message"
        /\ emitted'[i].data.targetSocketId = p
        /\ emitted'[i].data.payload.encrypted.text = text
\* a message `text' for peer p is encrypted and will be emitted
Encrypting(p, text) ==
    \E k \in 1..Len(sendTasks') :
        /\ sendTasks'[k].pc = "encrypt"
        /\ sendTasks'[k].targetSocketId = p
        /\ sendTasks'[k].text = text

\* C29: the messages the client sends to one peer are emitted in the order
\* of the sendMessage calls: the message of a later call is not emitted while
\* the message of an earlier call to the same peer still awaits encryption.
C29_EmittedInCallOrder ==
    [][\A p \in PeerSocketIds :
          SendsText(p, OrderTexts[2]) => ~Encrypting(p, OrderTexts[1])]_vars

\* C35: every entry of the directory refers to a connection that is still
\* connected (or whose 'disconnect' handler is still to run): a disconnect
\* removes every username the connection holds.
C35_DirectoryHoldsConnected ==
    \A i \in 1..Len(allUsers) : allUsers[i].socketId \in sockets \cup closing

\* C36: each connection is a member of at most one room, and every member
\* entry of a room is a connected connection whose recorded room is that room.
C36_OneRoomPerConnection ==
    /\ \A s \in SocketIds :
          Cardinality({roomId \in DOMAIN rooms : s \in DOMAIN rooms[roomId]}) <= 1
    /\ \A roomId \in DOMAIN rooms : \A s \in DOMAIN rooms[roomId] :
          /\ s \in sockets \cup closing
          /\ s \in DOMAIN socketToRoom
          /\ socketToRoom[s] = roomId


\* C37: a connection that has sent leave-room and joined no room since is
\* sent no 'user-joined' and no 'user-left' of a room.
C37_NoRoomEventsAfterLeave ==
    \A e \in out : e.ev \in {"user-joined", "user-left"} => e.to \in DOMAIN socketToRoom


\* C33: no 'user-joined' and no 'room-users' the relay sends carries the
\* network address of a connection.
C33_NoAddressDisclosed ==
    \A e \in out :
        /\ e.ev = "user-joined" => "ip" \notin DOMAIN e.data.user
        /\ e.ev = "room-users" => \A u \in e.data.users : "ip" \notin DOMAIN u


\* C39: whenever the identity store holds a public and a private key, the
\* two belong to the same generated key pair.
C39_StoredKeysArePair ==
    restored(keyStore.publicKey, keyStore.privateKey)
        => \E n \in 1..MaxKeyPairs :
              [publicKey |-> keyStore.publicKey, privateKey |-> keyStore.privateKey]
                  = generateAppKeyPair(n)


\* C40: per transfer the sender emits each chunk index at most once and
\* 'file-complete' at most once.
C40_EachChunkOnce ==
    \A key \in DOMAIN dataSent : dataSent[key] = 1


\* C34: once the receiver has accepted a transfer of n chunks, it eventually
\* finalizes it with all n chunks (both clients stay connected, nobody
\* cancels), also for n above the relay's per-window event cap.
Accepted(id) ==
    /\ id \in DOMAIN link.p2.activeTransfers
    /\ link.p2.activeTransfers[id].status = "transferring"
FinalizedWhole(id) ==
    \E i \in 1..Len(link.p2.downloads) :
        /\ link.p2.downloads[i].transferId = id
        /\ link.p2.downloads[i].blob.parts = sliceFile(LinkFile)
C34_AcceptedTransferCompletes ==
    \A id \in UploadIds : Accepted(id) ~> FinalizedWhole(id)


\* C32: a received direct message is filed in the thread of a username only
\* if it came from the connection the relay identifies as that username.
C32_ThreadOfSender ==
    lastMessage # <<>> =>
        \A i \in 1..Len(lastMessage[1].added) :
            LET m == lastMessage[1].added[i]
            IN  m.isDirect /\ m.senderName \in {"U1", "U9"}
                    => m.senderSocketId = IdentifiedAs(m.senderName)


\* C31: a room message goes only to connections that are members of the
\* sender's room as the relay has announced it (joined and not left since).
C31_RoomMessageToMembers ==
    \A i \in 1..Len(emitted) :
        emitted[i].ev = "send-message" /\ ~emitted[i].data.payload.isDirect
            => \E u \in DOMAIN online : online[u] = emitted[i].data.targetSocketId


\* C38: when the transport has reconnected while the client is in a room,
\* the client eventually is a member of that room under its new socket id
\* (unless the user has switched to another room in the meantime).
InRoomAfterReconnect(roomId) ==
    /\ session.reconnected
    /\ session.roomId = roomId
MemberAgain(roomId) ==
    /\ session.socketId # NoSocketId
    /\ session.socketId[1] \in DOMAIN socketToRoom
    /\ socketToRoom[session.socketId[1]] = roomId
C38_RejoinsAfterReconnect ==
    \A roomId \in RoomPair :
        InRoomAfterReconnect(roomId) ~> (MemberAgain(roomId) \/ session.roomId # roomId)

====
